---- MODULE Spec2Model ----
(***************************************************************************)
(* MP_lang: the recursive-descent parser (src/src/parser/mod.rs) and the   *)
(* tree-walking evaluator (src/src/runtime/eval/mod.rs) over the           *)
(* environment of src/src/runtime/environment/mod.rs.                      *)
(*                                                                         *)
(* A token stream is parsed to a program (a sequence of statements) and    *)
(* the program is evaluated against an environment that persists from one  *)
(* command to the next, as in the REPL loop of src/src/lib.rs.             *)
(*                                                                         *)
(* Both `=` and `==` are lexed to TokenKind::Equal                         *)
(* (src/src/lexer/mod.rs:145-161), so the token streams below write        *)
(* "Equal" for the `=` of a let and of an assignment.                      *)
(***************************************************************************)
EXTENDS Integers, Sequences, FiniteSets, TLC

VARIABLES
    pending,    \* the commands still to be read, each a token stream (or,
                \* for ReadLine, a line of source text)
    cmd,        \* the line of source text being handled (ReadLine), else <<>>
    tokens,     \* the token stream of the command being handled
    stage,      \* "read" | "tokens" | "parsed" | "failed" | "done" | "aborted" | "running"
                \* | "exited"
    ast,        \* what parse returned for `tokens`
    env,        \* the environment eval_with_env runs against
    before,     \* the environment as it was when the last evaluation began
    result,     \* what eval_with_env returned for `ast`
    host,       \* "repl" (run_repl, handle_command) | "file" (run_file)
    shown       \* what the host printed for the command

vars == <<pending, cmd, tokens, stage, ast, env, before, result, host, shown>>

\* ------------------------------------------------------------------ bounds

\* Loop iterations plus user-function calls one evaluation may take before
\* the model stops following it (the evaluator itself has no such limit).
MaxSteps == 6

\* ------------------------------------------------------------------ values

IntNum(i) == [sub |-> "Int", n |-> i]
FloatNum(f) == [sub |-> "Float", n |-> f]

Nil == [type |-> "Nil"]
NumberV(num) == [type |-> "Number", num |-> num]
BooleanV(b) == [type |-> "Boolean", b |-> b]
StringV(s) == [type |-> "String", s |-> s]
VectorV(items) == [type |-> "Vector", items |-> items]

\* InterpreterError
UndefinedVariable(name) == [kind |-> "UndefinedVariable", name |-> name]
InvalidOperation(msg) == [kind |-> "InvalidOperation", msg |-> msg]
TypeMismatch(msg) == [kind |-> "TypeMismatch", msg |-> msg]
ReturnSignal(v) == [kind |-> "Return", val |-> v]

\* Option<T> as a sequence of length 0 (None) or 1 (Some)
None == <<>>
Some(x) == <<x>>

\* ------------------------------------------------------------- environment

VariableB(v) == [kind |-> "Variable", value |-> v]
FunctionB(params, body) == [kind |-> "Function", params |-> params, body |-> body]
BuiltinB(f) == [kind |-> "Builtin", f |-> f]

EnvironmentNew ==
    [name \in {"print", "len", "toString", "vector", "push", "pop"} |->
        CASE name = "print" -> BuiltinB("Print")
          [] name = "len" -> BuiltinB("Len")
          [] name = "toString" -> BuiltinB("ToString")
          [] name = "vector" -> BuiltinB("Vector")
          [] name = "push" -> BuiltinB("Push")
          [] name = "pop" -> BuiltinB("Pop")]

Define(e, name, value) == (name :> VariableB(value)) @@ e

DefineFunction(e, name, params, body) == (name :> FunctionB(params, body)) @@ e

Get(e, name) ==
    IF name \in DOMAIN e /\ e[name].kind = "Variable"
    THEN Some(e[name].value)
    ELSE None

GetFunction(e, name) ==
    IF name \in DOMAIN e /\ e[name].kind = "Function"
    THEN Some([params |-> e[name].params, body |-> e[name].body])
    ELSE None

\* ------------------------------------------------------- evaluation results

\* The state an evaluation threads: the environment it writes to, the lines
\* print has written to standard output, and the steps left (MaxSteps).
EvalState(e, out, fuel) == [env |-> e, out |-> out, fuel |-> fuel]

\* Result<Value, InterpreterError>, with the state the evaluation left behind.
\* "Panic" is a Rust panic (the evaluator aborts); "Diverge" is an evaluation
\* that is still running when the model's step bound is used up. `bad` is
\* what `?` tests: every outcome except Ok leaves the enclosing function.
Ok(v, st) == [bad |-> FALSE, tag |-> "Ok", val |-> v, st |-> st]
Err(e, st) == [bad |-> TRUE, tag |-> "Err", val |-> e, st |-> st]
Panic(st) == [bad |-> TRUE, tag |-> "Panic", val |-> Nil, st |-> st]
Diverge(st) == [bad |-> TRUE, tag |-> "Diverge", val |-> Nil, st |-> st]

\* A cloned scope ends: the caller keeps its own environment; output and
\* steps are global.
DropScope(outer, inner) == [inner EXCEPT !.env = outer.env]

\* ------------------------------------------------------------------ numbers

Abs(i) == IF i < 0 THEN -i ELSE i

\* i128 division truncates toward zero
TruncDiv(a, b) ==
    IF (a < 0) = (b < 0) THEN Abs(a) \div Abs(b) ELSE -(Abs(a) \div Abs(b))

\* impl Add/Sub/Mul/Div for Number: Some(number), or None when the operation
\* panics (operands of different subvariants, integer division by zero).
\* Floats are carried by their integer value; a float quotient that is not
\* such a value is kept as the pair of its operands.
NumArith(op, l, r) ==
    IF l.sub # r.sub THEN None
    ELSE CASE op = "Plus" -> Some([sub |-> l.sub, n |-> l.n + r.n])
           [] op = "Minus" -> Some([sub |-> l.sub, n |-> l.n - r.n])
           [] op = "Multiply" -> Some([sub |-> l.sub, n |-> l.n * r.n])
           [] op = "Divide" ->
                IF l.sub = "Int"
                THEN IF r.n = 0 THEN None ELSE Some(IntNum(TruncDiv(l.n, r.n)))
                ELSE IF r.n # 0 /\ l.n % r.n = 0
                     THEN Some(FloatNum(TruncDiv(l.n, r.n)))
                     ELSE Some([sub |-> "Float", n |-> 0, quotient |-> <<l.n, r.n>>])

\* impl PartialOrd for Number: operands of different subvariants are unordered
NumCompare(op, l, r) ==
    IF l.sub # r.sub THEN FALSE
    ELSE CASE op = "GreaterThan" -> l.n > r.n
           [] op = "GreaterThanOrEqual" -> l.n >= r.n
           [] op = "LessThan" -> l.n < r.n
           [] op = "LessThanOrEqual" -> l.n <= r.n

NumNeg(l) == [l EXCEPT !.n = -l.n]

\* ----------------------------------------------------------------- built-ins

RECURSIVE Digits(_)
Digits(i) == IF i < 10 THEN 1 ELSE 1 + Digits(i \div 10)

RECURSIVE DisplayLen(_)
RECURSIVE DisplayLenSum(_, _)
DisplayLenSum(items, i) ==
    IF i > Len(items) THEN 0
    ELSE DisplayLen(items[i]) + (IF i > 1 THEN 2 ELSE 0) + DisplayLenSum(items, i + 1)

\* length of `value.to_string()` (impl Display for Value)
DisplayLen(v) ==
    CASE v.type = "Number" ->
            (IF v.num.n < 0 THEN 1 ELSE 0) + Digits(Abs(v.num.n))
            + (IF v.num.sub = "Float" THEN 2 ELSE 0)
      [] v.type = "Boolean" -> IF v.b THEN 4 ELSE 5
      [] v.type = "String" -> Len(v.s)
      [] v.type = "Vector" -> 2 + DisplayLenSum(v.items, 1)
      [] v.type = "Nil" -> 3

\* BuiltinFunction::call
BuiltinCall(f, args, st) ==
    CASE f = "Print" -> Ok(Nil, [st EXCEPT !.out = Append(@, args)])
      [] f = "Len" ->
            IF args = <<>> THEN Err(TypeMismatch("len"), st)
            ELSE LET a == args[1] IN
                 CASE a.type = "Number" -> Ok(NumberV([a.num EXCEPT !.n = Abs(@)]), st)
                   [] a.type = "Boolean" -> Ok(NumberV(FloatNum(IF a.b THEN 1 ELSE 0)), st)
                   [] a.type = "Nil" -> Ok(NumberV(FloatNum(0)), st)
                   [] a.type = "Vector" -> Ok(NumberV(FloatNum(Len(a.items))), st)
                   [] OTHER -> Err(TypeMismatch("len"), st)
      [] f = "ToString" ->
            IF args = <<>> THEN Err(TypeMismatch("toString"), st)
            ELSE Ok(NumberV(FloatNum(DisplayLen(args[1]))), st)
      [] f = "Vector" -> Ok(VectorV(args), st)
      [] f = "Push" ->
            IF Len(args) = 2 /\ args[1].type = "Vector"
            THEN Ok(VectorV(Append(args[1].items, args[2])), st)
            ELSE Err(TypeMismatch("push"), st)
      [] f = "Pop" ->
            IF args # <<>> /\ args[1].type = "Vector"
            THEN IF args[1].items # <<>>
                 THEN Ok(args[1].items[Len(args[1].items)], st)
                 ELSE Err(InvalidOperation("pop"), st)
            ELSE Err(TypeMismatch("pop"), st)

\* ---------------------------------------------------------------- evaluator

RECURSIVE EvalExpr(_, _)
RECURSIVE EvalStmt(_, _)
RECURSIVE EvalStmts(_, _, _, _)
RECURSIVE BindArgs(_, _, _, _, _)
RECURSIVE EvalArgsCloned(_, _, _, _)
RECURSIVE WhileLoop(_, _, _, _)

\* `for stmt in ast { result = eval_stmt(&stmt, env)?; }` from statement i on
EvalStmts(stmts, i, last, st) ==
    IF i > Len(stmts) THEN Ok(last, st)
    ELSE LET r == EvalStmt(stmts[i], st) IN
         IF r.bad THEN r ELSE EvalStmts(stmts, i + 1, r.val, r.st)

\* eval_with_env
EvalWithEnv(program, st) == EvalStmts(program, 1, Nil, st)

\* eval_stmt with a Stmt::Expr that yields the value of its expression
EvalStmtKeepingValue(stmt, st) ==
    CASE stmt.type \in {"Expr", "Result"} -> EvalExpr(stmt.expr, st)
      [] stmt.type = "Let" ->
            LET r == EvalExpr(stmt.value, st) IN
            IF r.bad THEN r
            ELSE Ok(Nil, [r.st EXCEPT !.env = Define(@, stmt.name, r.val)])
      [] stmt.type = "Function" ->
            Ok(Nil, [st EXCEPT !.env = DefineFunction(@, stmt.name, stmt.params, stmt.body)])
      [] stmt.type = "Return" ->
            IF stmt.value = None THEN Err(ReturnSignal(Nil), st)
            ELSE LET r == EvalExpr(stmt.value[1], st) IN
                 IF r.bad THEN r ELSE Err(ReturnSignal(r.val), r.st)

\* eval_stmt
EvalStmt(stmt, st) ==
    CASE stmt.type = "Expr" ->
            LET r == EvalExpr(stmt.expr, st) IN
            IF r.bad THEN r ELSE Ok(Nil, r.st)
      [] stmt.type = "Let" ->
            LET r == EvalExpr(stmt.value, st) IN
            IF r.bad THEN r
            ELSE Ok(Nil, [r.st EXCEPT !.env = Define(@, stmt.name, r.val)])
      [] stmt.type = "Function" ->
            Ok(Nil, [st EXCEPT !.env = DefineFunction(@, stmt.name, stmt.params, stmt.body)])
      [] stmt.type = "Result" -> EvalExpr(stmt.expr, st)
      [] stmt.type = "Return" ->
            IF stmt.value = None THEN Err(ReturnSignal(Nil), st)
            ELSE LET r == EvalExpr(stmt.value[1], st) IN
                 IF r.bad THEN r ELSE Err(ReturnSignal(r.val), r.st)

\* EvalVariable that fails for an unbound name only: a name bound to a
\* function or to a built-in yields Nil
EvalVariableOfAnyBinding(expr, st) ==
    IF expr.name \notin DOMAIN st.env THEN Err(UndefinedVariable(expr.name), st)
    ELSE IF st.env[expr.name].kind = "Variable" THEN Ok(st.env[expr.name].value, st)
    ELSE Ok(Nil, st)

\* Expr::Variable
EvalVariable(expr, st) ==
    LET v == Get(st.env, expr.name) IN
    IF v # None THEN Ok(v[1], st) ELSE Err(UndefinedVariable(expr.name), st)

\* BinaryDispatch that takes a Boolean operand for the Number 1 or 0
BinaryDispatchCoercing(op, l, r, st) ==
    LET AsNumber(v) ==
            IF v.type = "Boolean" THEN NumberV(IntNum(IF v.b THEN 1 ELSE 0)) ELSE v
        ln == AsNumber(l)
        rn == AsNumber(r)
    IN  IF ln.type = "Number" /\ rn.type = "Number"
        THEN IF op \in {"Plus", "Minus", "Multiply", "Divide"}
             THEN LET n == NumArith(op, ln.num, rn.num) IN
                  IF n = None THEN Panic(st) ELSE Ok(NumberV(n[1]), st)
             ELSE IF op \in {"GreaterThan", "GreaterThanOrEqual", "LessThan", "LessThanOrEqual"}
             THEN Ok(BooleanV(NumCompare(op, ln.num, rn.num)), st)
             ELSE IF op = "Equal" THEN Ok(BooleanV(ln.num = rn.num), st)
             ELSE IF op = "NotEqual" THEN Ok(BooleanV(ln.num # rn.num), st)
             ELSE Err(InvalidOperation(op), st)
        ELSE Err(TypeMismatch("operands"), st)

\* the (Value, Value) dispatch of Expr::BinaryOp
BinaryDispatch(op, l, r, st) ==
    IF l.type = "Number" /\ r.type = "Number"
    THEN IF op \in {"Plus", "Minus", "Multiply", "Divide"}
         THEN LET n == NumArith(op, l.num, r.num) IN
              IF n = None THEN Panic(st) ELSE Ok(NumberV(n[1]), st)
         ELSE IF op \in {"GreaterThan", "GreaterThanOrEqual", "LessThan", "LessThanOrEqual"}
         THEN Ok(BooleanV(NumCompare(op, l.num, r.num)), st)
         ELSE IF op = "Equal" THEN Ok(BooleanV(l.num = r.num), st)
         ELSE IF op = "NotEqual" THEN Ok(BooleanV(l.num # r.num), st)
         ELSE Err(InvalidOperation(op), st)
    ELSE IF l.type = "Boolean" /\ r.type = "Boolean"
    THEN IF op = "Equal" THEN Ok(BooleanV(l.b = r.b), st)
         ELSE IF op = "NotEqual" THEN Ok(BooleanV(l.b # r.b), st)
         ELSE Err(InvalidOperation(op), st)
    ELSE Err(TypeMismatch("operands"), st)

\* Expr::BinaryOp
EvalBinaryOp(expr, st) ==
    IF expr.op = "Equal"
    THEN IF expr.left.type = "Variable"
         THEN LET r == EvalExpr(expr.right, st) IN
              IF r.bad THEN r
              ELSE Ok(r.val, [r.st EXCEPT !.env = Define(@, expr.left.name, r.val)])
         ELSE Err(InvalidOperation("Invalid assignment target"), st)
    ELSE LET l == EvalExpr(expr.left, st) IN
         IF l.bad THEN l
         ELSE LET r == EvalExpr(expr.right, l.st) IN
              IF r.bad THEN r
              ELSE BinaryDispatch(expr.op, l.val, r.val, r.st)

\* Expr::UnaryOp
EvalUnaryOp(expr, st) ==
    LET r == EvalExpr(expr.expr, st) IN
    IF r.bad THEN r
    ELSE IF expr.op = "Minus" /\ r.val.type = "Number"
         THEN Ok(NumberV(NumNeg(r.val.num)), r.st)
         ELSE Err(InvalidOperation(expr.op), r.st)

RECURSIVE BindArgsTakingReturn(_, _, _, _, _)
\* BindArgs that takes the value of a Return raised by an argument as the
\* value of the argument
BindArgsTakingReturn(params, args, i, call_env, st) ==
    IF i > Len(params) THEN Ok(call_env, st)
    ELSE LET r == EvalExpr(args[i], st) IN
         IF r.tag = "Err" /\ r.val.kind = "Return"
         THEN BindArgsTakingReturn(params, args, i + 1,
                                   Define(call_env, params[i], r.val.val), r.st)
         ELSE IF r.bad THEN r
         ELSE BindArgsTakingReturn(params, args, i + 1,
                                   Define(call_env, params[i], r.val), r.st)

\* the user-function loop `for (param, arg) in params.iter().zip(args.iter())`:
\* each argument is evaluated in the caller's environment (st.env) and bound
\* in call_env; Ok carries the finished call_env.
BindArgs(params, args, i, call_env, st) ==
    IF i > Len(params) THEN Ok(call_env, st)
    ELSE LET r == EvalExpr(args[i], st) IN
         IF r.bad THEN r
         ELSE BindArgs(params, args, i + 1, Define(call_env, params[i], r.val), r.st)

\* EvalUserCall that hands the Return signal of the body on to its caller
EvalUserCallPassingReturn(f, args, st) ==
    IF Len(f.params) # Len(args)
    THEN Err(InvalidOperation("argument count mismatch"), st)
    ELSE LET a == BindArgs(f.params, args, 1, st.env, st) IN
         IF a.bad THEN a
         ELSE IF a.st.fuel = 0 THEN Diverge(a.st)
         ELSE LET r == EvalExpr(f.body, [a.st EXCEPT !.env = a.val, !.fuel = @ - 1])
              IN  [r EXCEPT !.st = DropScope(a.st, r.st)]

\* EvalUserCall that binds the parameters in Environment::new()
EvalUserCallInNewEnvironment(f, args, st) ==
    IF Len(f.params) # Len(args)
    THEN Err(InvalidOperation("argument count mismatch"), st)
    ELSE LET a == BindArgs(f.params, args, 1, EnvironmentNew, st) IN
         IF a.bad THEN a
         ELSE IF a.st.fuel = 0 THEN Diverge(a.st)
         ELSE LET r == EvalExpr(f.body, [a.st EXCEPT !.env = a.val, !.fuel = @ - 1])
                  back == DropScope(a.st, r.st)
              IN  IF r.tag = "Ok" THEN Ok(r.val, back)
                  ELSE IF r.tag = "Err" /\ r.val.kind = "Return" THEN Ok(r.val.val, back)
                  ELSE [r EXCEPT !.st = back]

\* EvalUserCall without the comparison of params.len() with args.len(): the
\* zip of the binding loop stops at the shorter of the two
EvalUserCallWithoutArityCheck(f, args, st) ==
    LET n == IF Len(f.params) < Len(args) THEN Len(f.params) ELSE Len(args)
        a == BindArgs(SubSeq(f.params, 1, n), args, 1, st.env, st)
    IN  IF a.bad THEN a
        ELSE IF a.st.fuel = 0 THEN Diverge(a.st)
        ELSE LET r == EvalExpr(f.body, [a.st EXCEPT !.env = a.val, !.fuel = @ - 1])
                 back == DropScope(a.st, r.st)
             IN  IF r.tag = "Ok" THEN Ok(r.val, back)
                 ELSE IF r.tag = "Err" /\ r.val.kind = "Return" THEN Ok(r.val.val, back)
                 ELSE [r EXCEPT !.st = back]

\* EvalUserCall whose call_env is the caller's environment itself, not a
\* clone of it: what the body writes stays
EvalUserCallWithoutClone(f, args, st) ==
    IF Len(f.params) # Len(args)
    THEN Err(InvalidOperation("argument count mismatch"), st)
    ELSE LET a == BindArgs(f.params, args, 1, st.env, st) IN
         IF a.bad THEN a
         ELSE IF a.st.fuel = 0 THEN Diverge(a.st)
         ELSE LET r == EvalExpr(f.body, [a.st EXCEPT !.env = a.val, !.fuel = @ - 1])
              IN  IF r.tag = "Ok" THEN Ok(r.val, r.st)
                  ELSE IF r.tag = "Err" /\ r.val.kind = "Return" THEN Ok(r.val.val, r.st)
                  ELSE r

\* Expr::FunctionCall, the callee is a user function f = (params, body)
EvalUserCall(f, args, st) ==
    IF Len(f.params) # Len(args)
    THEN Err(InvalidOperation("argument count mismatch"), st)
    ELSE LET a == BindArgs(f.params, args, 1, st.env, st) IN
         IF a.bad THEN a
         ELSE IF a.st.fuel = 0 THEN Diverge(a.st)
         ELSE LET r == EvalExpr(f.body, [a.st EXCEPT !.env = a.val, !.fuel = @ - 1])
                  back == DropScope(a.st, r.st)
              IN  IF r.tag = "Ok" THEN Ok(r.val, back)
                  ELSE IF r.tag = "Err" /\ r.val.kind = "Return" THEN Ok(r.val.val, back)
                  ELSE [r EXCEPT !.st = back]

\* `args.iter().map(|arg| eval_expr(arg, &mut env.clone())).collect()`:
\* every argument is evaluated in its own clone of the caller's environment
\* and the first failure ends the collection; Ok carries the values.
EvalArgsCloned(args, i, vals, st) ==
    IF i > Len(args) THEN Ok(vals, st)
    ELSE LET r == EvalExpr(args[i], st) IN
         IF r.bad THEN [r EXCEPT !.st = DropScope(st, r.st)]
         ELSE EvalArgsCloned(args, i + 1, Append(vals, r.val), DropScope(st, r.st))

\* EvalBuiltinCall whose push and pop write the changed array back to the
\* variable that was passed as their first argument
EvalBuiltinCallInPlace(name, args, st) ==
    LET a == EvalArgsCloned(args, 1, <<>>, st) IN
    IF a.bad THEN a
    ELSE IF name \in DOMAIN a.st.env /\ a.st.env[name].kind = "Builtin"
         THEN LET r == BuiltinCall(a.st.env[name].f, a.val, a.st) IN
              IF /\ r.tag = "Ok"
                 /\ a.st.env[name].f \in {"Push", "Pop"}
                 /\ args[1].type = "Variable"
              THEN [r EXCEPT !.st.env =
                       Define(@, args[1].name,
                              IF a.st.env[name].f = "Push" THEN r.val
                              ELSE VectorV(SubSeq(a.val[1].items, 1, Len(a.val[1].items) - 1)))]
              ELSE r
         ELSE Err(UndefinedVariable(name), a.st)

\* Expr::FunctionCall, the name is not bound to a user function
EvalBuiltinCall(name, args, st) ==
    LET a == EvalArgsCloned(args, 1, <<>>, st) IN
    IF a.bad THEN a
    ELSE IF name \in DOMAIN a.st.env /\ a.st.env[name].kind = "Builtin"
         THEN BuiltinCall(a.st.env[name].f, a.val, a.st)
         ELSE Err(UndefinedVariable(name), a.st)

\* Expr::FunctionCall
EvalFunctionCall(expr, st) ==
    LET f == GetFunction(st.env, expr.name) IN
    IF f # None THEN EvalUserCall(f[1], expr.args, st)
    ELSE EvalBuiltinCall(expr.name, expr.args, st)

\* EvalIf that takes a condition that is no Boolean for true, Nil for false
EvalIfTruthy(expr, st) ==
    LET c == EvalExpr(expr.condition, st) IN
    IF c.bad THEN c
    ELSE IF (IF c.val.type = "Boolean" THEN c.val.b ELSE c.val.type # "Nil")
         THEN EvalExpr(expr.then_branch, c.st)
         ELSE IF expr.else_branch # None THEN EvalExpr(expr.else_branch[1], c.st)
         ELSE Ok(Nil, c.st)

\* Expr::If
EvalIf(expr, st) ==
    LET c == EvalExpr(expr.condition, st) IN
    IF c.bad THEN c
    ELSE IF c.val.type = "Boolean"
         THEN IF c.val.b THEN EvalExpr(expr.then_branch, c.st)
              ELSE IF expr.else_branch # None THEN EvalExpr(expr.else_branch[1], c.st)
              ELSE Ok(Nil, c.st)
         ELSE Err(TypeMismatch("If condition must be boolean"), c.st)

\* Expr::Block without the clone: the statements write to the caller's environment
EvalBlockInPlace(expr, st) == EvalStmts(expr.statements, 1, Nil, st)

\* Expr::Block
EvalBlock(expr, st) ==
    LET r == EvalStmts(expr.statements, 1, Nil, st) IN
    [r EXCEPT !.st = DropScope(st, r.st)]

\* WhileLoop that keeps the value of the last iteration only
WhileLoopKeepingLast(condition, body, acc, st) ==
    LET c == EvalExpr(condition, st) IN
    IF c.bad THEN c
    ELSE IF c.val.type # "Boolean"
         THEN Err(TypeMismatch("While condition must be boolean"), c.st)
    ELSE IF ~c.val.b
         THEN IF acc = <<>> THEN Ok(Nil, c.st) ELSE Ok(VectorV(acc), c.st)
    ELSE IF body = <<>> THEN Panic(c.st)
    ELSE IF c.st.fuel = 0 THEN Diverge(c.st)
    ELSE LET front == EvalStmts(SubSeq(body, 1, Len(body) - 1), 1, Nil,
                                [c.st EXCEPT !.fuel = @ - 1])
         IN  IF front.bad THEN front
             ELSE LET last == EvalStmt(body[Len(body)], front.st) IN
                  IF last.bad THEN last
                  ELSE WhileLoop(condition, body, <<last.val>>, last.st)

\* WhileLoop whose body runs in a clone of the environment, as a block does
WhileLoopInClonedScope(condition, body, acc, st) ==
    LET c == EvalExpr(condition, st) IN
    IF c.bad THEN c
    ELSE IF c.val.type # "Boolean"
         THEN Err(TypeMismatch("While condition must be boolean"), c.st)
    ELSE IF ~c.val.b
         THEN IF acc = <<>> THEN Ok(Nil, c.st) ELSE Ok(VectorV(acc), c.st)
    ELSE IF body = <<>> THEN Panic(c.st)
    ELSE IF c.st.fuel = 0 THEN Diverge(c.st)
    ELSE LET front == EvalStmts(SubSeq(body, 1, Len(body) - 1), 1, Nil,
                                [c.st EXCEPT !.fuel = @ - 1])
         IN  IF front.bad THEN [front EXCEPT !.st = DropScope(c.st, @)]
             ELSE LET last == EvalStmt(body[Len(body)], front.st) IN
                  IF last.bad THEN [last EXCEPT !.st = DropScope(c.st, @)]
                  ELSE WhileLoop(condition, body, Append(acc, last.val),
                                 DropScope(c.st, last.st))

\* the `loop` of Expr::While; acc is `result`
WhileLoop(condition, body, acc, st) ==
    LET c == EvalExpr(condition, st) IN
    IF c.bad THEN c
    ELSE IF c.val.type # "Boolean"
         THEN Err(TypeMismatch("While condition must be boolean"), c.st)
    ELSE IF ~c.val.b
         THEN IF acc = <<>> THEN Ok(Nil, c.st) ELSE Ok(VectorV(acc), c.st)
    ELSE IF body = <<>> THEN Panic(c.st)
    ELSE IF c.st.fuel = 0 THEN Diverge(c.st)
    ELSE LET front == EvalStmts(SubSeq(body, 1, Len(body) - 1), 1, Nil,
                                [c.st EXCEPT !.fuel = @ - 1])
         IN  IF front.bad THEN front
             ELSE LET last == EvalStmt(body[Len(body)], front.st) IN
                  IF last.bad THEN last
                  ELSE WhileLoop(condition, body, Append(acc, last.val), last.st)

\* Expr::While
EvalWhile(expr, st) == WhileLoop(expr.condition, expr.body, <<>>, st)

\* eval_expr
EvalExpr(expr, st) ==
    CASE expr.type = "Number" -> Ok(NumberV(expr.num), st)
      [] expr.type = "Boolean" -> Ok(BooleanV(expr.b), st)
      [] expr.type = "String" -> Ok(StringV(expr.s), st)
      [] expr.type = "Variable" -> EvalVariable(expr, st)
      [] expr.type = "BinaryOp" -> EvalBinaryOp(expr, st)
      [] expr.type = "UnaryOp" -> EvalUnaryOp(expr, st)
      [] expr.type = "FunctionCall" -> EvalFunctionCall(expr, st)
      [] expr.type = "If" -> EvalIf(expr, st)
      [] expr.type = "Block" -> EvalBlock(expr, st)
      [] expr.type = "While" -> EvalWhile(expr, st)

\* ---------------------------------------------------------------------- AST

\* enum Expr
NumberE(num) == [type |-> "Number", num |-> num]
BooleanE(b) == [type |-> "Boolean", b |-> b]
StringE(str) == [type |-> "String", s |-> str]
VariableE(name) == [type |-> "Variable", name |-> name]
BinaryOpE(left, op, right) == [type |-> "BinaryOp", left |-> left, op |-> op, right |-> right]
UnaryOpE(op, expr) == [type |-> "UnaryOp", op |-> op, expr |-> expr]
FunctionCallE(name, args) == [type |-> "FunctionCall", name |-> name, args |-> args]
IfE(condition, then_branch, else_branch) ==
    [type |-> "If", condition |-> condition, then_branch |-> then_branch,
     else_branch |-> else_branch]
BlockE(statements) == [type |-> "Block", statements |-> statements]
WhileE(condition, body) == [type |-> "While", condition |-> condition, body |-> body]

\* enum Stmt
ExprS(expr) == [type |-> "Expr", expr |-> expr]
LetS(name, value) == [type |-> "Let", name |-> name, value |-> value]
FunctionS(name, params, body) ==
    [type |-> "Function", name |-> name, params |-> params, body |-> body]
ResultS(expr) == [type |-> "Result", expr |-> expr]
ReturnS(value) == [type |-> "Return", value |-> value]

\* ------------------------------------------------------------------- tokens

\* Token kinds without a payload are [kind |-> K]; Number, Boolean, String,
\* Identifier and Comment carry theirs. A token's place in the stream stands
\* for its span.
Tk(kind) == [kind |-> kind]
NumT(i) == [kind |-> "Number", num |-> IntNum(i)]
FloatT(f) == [kind |-> "Number", num |-> FloatNum(f)]
BoolT(b) == [kind |-> "Boolean", b |-> b]
IdT(name) == [kind |-> "Identifier", name |-> name]
StrT(str) == [kind |-> "String", s |-> str]

\* ------------------------------------------------------------------- parser

\* Result<T, ParserError> with the cursor the parser is left at; cur is
\* `current` + 1. "Panic" is a Rust panic!. `bad` is what `?` tests.
POk(node, cur) == [bad |-> FALSE, tag |-> "Ok", node |-> node, cur |-> cur]
PErr(err, cur) == [bad |-> TRUE, tag |-> "Err", node |-> err, cur |-> cur]
PPanic(cur) == [bad |-> TRUE, tag |-> "Panic", node |-> Nil, cur |-> cur]

UnexpectedToken(toks, cur) == [kind |-> "UnexpectedToken", token |-> toks[cur], at |-> cur]
UnexpectedEOF == [kind |-> "UnexpectedEOF"]

IsAtEnd(toks, cur) == toks[cur].kind = "Eof"

Check(toks, cur, kind) == IF IsAtEnd(toks, cur) THEN FALSE ELSE toks[cur].kind = kind

\* advance: the cursor after it
Advance(toks, cur) == IF ~IsAtEnd(toks, cur) THEN cur + 1 ELSE cur

\* match_token: the cursor after it (moved exactly when the token matched)
MatchToken(toks, cur, kind) == IF Check(toks, cur, kind) THEN Advance(toks, cur) ELSE cur

\* consume
Consume(toks, cur, kind) ==
    IF Check(toks, cur, kind) THEN POk(Nil, Advance(toks, cur))
    ELSE PErr(UnexpectedToken(toks, cur), cur)

\* consume_identifier that looks at the current token and leaves the cursor
\* where it is
ConsumeIdentifierWithoutAdvance(toks, cur) ==
    IF toks[cur].kind = "Identifier" THEN POk(toks[cur].name, cur)
    ELSE PErr(UnexpectedToken(toks, cur), cur)

\* consume_identifier: looks at the token advance() returns, previous()
ConsumeIdentifier(toks, cur) ==
    LET next == Advance(toks, cur)
        tok == toks[next - 1]
    IN  IF tok.kind = "Identifier" THEN POk(tok.name, next)
        ELSE PErr(UnexpectedToken(toks, next), next)

RECURSIVE DeleteContinuousTokens(_, _, _)
DeleteContinuousTokens(toks, cur, kind) ==
    IF Check(toks, cur, kind) THEN DeleteContinuousTokens(toks, Advance(toks, cur), kind)
    ELSE cur

DeleteEmptyLines(toks, cur) == DeleteContinuousTokens(toks, cur, "Newline")

DeleteEmptyStatements(toks, cur) ==
    DeleteContinuousTokens(toks, DeleteContinuousTokens(toks, cur, "Semicolon"), "Newline")

\* is_at_last_not_empty_line and is_at_block_last_not_empty_line first move
\* the cursor over the Newline tokens: the answer is read at DeleteEmptyLines.
IsAtLastNotEmptyLine(toks, cur) == IsAtEnd(toks, DeleteEmptyLines(toks, cur))

IsAtBlockLastNotEmptyLine(toks, cur) == Check(toks, DeleteEmptyLines(toks, cur), "RightBrace")

RECURSIVE Statement(_, _)
RECURSIVE Expression(_, _)
RECURSIVE Assignment(_, _)
RECURSIVE Unary(_, _)
RECURSIVE Primary(_, _)
RECURSIVE EqualityLoop(_, _, _)
RECURSIVE ComparisonLoop(_, _, _)
RECURSIVE TermLoop(_, _, _)
RECURSIVE FactorLoop(_, _, _)
RECURSIVE ArgumentLoop(_, _, _)
RECURSIVE ParameterLoop(_, _, _)
RECURSIVE StatementLoop(_, _, _)

\* The `?` of Rust on a parser result: an Err (or a panic) ends the
\* calling function with it, an Ok is handed on.
Try(r, K(_)) == IF r.bad THEN r ELSE K(r)

\* factor: the `while` over `*` and `/`
FactorLoop(toks, cur, expr) ==
    IF Check(toks, cur, "Multiply") \/ Check(toks, cur, "Divide")
    THEN Try(Unary(toks, Advance(toks, cur)), LAMBDA right :
             FactorLoop(toks, right.cur, BinaryOpE(expr, toks[cur].kind, right.node)))
    ELSE POk(expr, cur)

Factor(toks, cur) ==
    Try(Unary(toks, cur), LAMBDA expr : FactorLoop(toks, expr.cur, expr.node))

\* term: the `while` over `+` and `-`
TermLoop(toks, cur, expr) ==
    IF Check(toks, cur, "Plus") \/ Check(toks, cur, "Minus")
    THEN Try(Factor(toks, Advance(toks, cur)), LAMBDA right :
             TermLoop(toks, right.cur, BinaryOpE(expr, toks[cur].kind, right.node)))
    ELSE POk(expr, cur)

\* Term with one precedence level for all four arithmetic operators.
RECURSIVE FlatArithmeticLoop(_, _, _)
FlatArithmeticLoop(toks, cur, expr) ==
    IF \E k \in {"Plus", "Minus", "Multiply", "Divide"} : Check(toks, cur, k)
    THEN Try(Unary(toks, Advance(toks, cur)), LAMBDA right :
             FlatArithmeticLoop(toks, right.cur, BinaryOpE(expr, toks[cur].kind, right.node)))
    ELSE POk(expr, cur)

TermWithoutPrecedence(toks, cur) ==
    Try(Unary(toks, cur), LAMBDA expr : FlatArithmeticLoop(toks, expr.cur, expr.node))

Term(toks, cur) ==
    Try(Factor(toks, cur), LAMBDA expr : TermLoop(toks, expr.cur, expr.node))

\* comparison: the `while` over `>`, `>=`, `<`, `<=`
ComparisonLoop(toks, cur, expr) ==
    IF \/ Check(toks, cur, "GreaterThan")
       \/ Check(toks, cur, "GreaterThanOrEqual")
       \/ Check(toks, cur, "LessThan")
       \/ Check(toks, cur, "LessThanOrEqual")
    THEN Try(Term(toks, Advance(toks, cur)), LAMBDA right :
             ComparisonLoop(toks, right.cur, BinaryOpE(expr, toks[cur].kind, right.node)))
    ELSE POk(expr, cur)

Comparison(toks, cur) ==
    Try(Term(toks, cur), LAMBDA expr : ComparisonLoop(toks, expr.cur, expr.node))

\* equality: the `while` over TokenKind::Equal and `!=`
EqualityLoop(toks, cur, expr) ==
    IF Check(toks, cur, "Equal") \/ Check(toks, cur, "NotEqual")
    THEN Try(Comparison(toks, Advance(toks, cur)), LAMBDA right :
             EqualityLoop(toks, right.cur, BinaryOpE(expr, toks[cur].kind, right.node)))
    ELSE POk(expr, cur)

Equality(toks, cur) ==
    Try(Comparison(toks, cur), LAMBDA expr : EqualityLoop(toks, expr.cur, expr.node))

Assignment(toks, cur) ==
    Try(Equality(toks, cur), LAMBDA expr :
        IF Check(toks, expr.cur, "Equal")
        THEN Try(Assignment(toks, Advance(toks, expr.cur)), LAMBDA value :
                 IF expr.node.type = "Variable"
                 THEN POk(BinaryOpE(VariableE(expr.node.name), "Equal", value.node),
                          value.cur)
                 ELSE PPanic(value.cur))
        ELSE expr)

Unary(toks, cur) ==
    IF Check(toks, cur, "Minus")
    THEN Try(Unary(toks, Advance(toks, cur)), LAMBDA expr :
             POk(UnaryOpE("Minus", expr.node), expr.cur))
    ELSE Primary(toks, cur)

\* the argument `loop` of a call: Ok carries args
ArgumentLoop(toks, cur, args) ==
    Try(Expression(toks, cur), LAMBDA arg :
        IF Check(toks, arg.cur, "Comma")
        THEN ArgumentLoop(toks, Advance(toks, arg.cur), Append(args, arg.node))
        ELSE POk(Append(args, arg.node), arg.cur))

\* the statement loops of a block and of a while body:
\* `while !self.check(RightBrace) && !self.is_at_end()`; Ok carries the statements
StatementLoop(toks, cur, statements) ==
    IF ~Check(toks, cur, "RightBrace") /\ ~IsAtEnd(toks, cur)
    THEN Try(Statement(toks, cur), LAMBDA stmt :
             StatementLoop(toks, stmt.cur, Append(statements, stmt.node)))
    ELSE POk(statements, cur)

\* primary, TokenKind::Identifier
PrimaryIdentifier(toks, cur) ==
    LET name == toks[cur].name
        next == Advance(toks, cur)
    IN  IF Check(toks, next, "LeftParen")
        THEN IF Check(toks, next + 1, "RightParen")
             THEN POk(FunctionCallE(name, <<>>), next + 2)
             ELSE Try(ArgumentLoop(toks, next + 1, <<>>), LAMBDA args :
                  Try(Consume(toks, args.cur, "RightParen"), LAMBDA close :
                      POk(FunctionCallE(name, args.node), close.cur)))
        ELSE POk(VariableE(name), next)

\* primary, TokenKind::LeftParen
PrimaryParen(toks, cur) ==
    Try(Expression(toks, Advance(toks, cur)), LAMBDA expr :
    Try(Consume(toks, expr.cur, "RightParen"), LAMBDA close :
        POk(expr.node, close.cur)))

\* primary, TokenKind::LeftBrace
PrimaryBlock(toks, cur) ==
    Try(StatementLoop(toks, Advance(toks, cur), <<>>), LAMBDA statements :
    Try(Consume(toks, statements.cur, "RightBrace"), LAMBDA close :
        POk(BlockE(statements.node), close.cur)))

Primary(toks, cur) ==
    IF IsAtEnd(toks, cur) THEN PErr(UnexpectedEOF, cur)
    ELSE CASE toks[cur].kind = "Number" -> POk(NumberE(toks[cur].num), Advance(toks, cur))
           [] toks[cur].kind = "Boolean" -> POk(BooleanE(toks[cur].b), Advance(toks, cur))
           [] toks[cur].kind = "String" -> POk(StringE(toks[cur].s), Advance(toks, cur))
           [] toks[cur].kind = "Identifier" -> PrimaryIdentifier(toks, cur)
           [] toks[cur].kind = "LeftParen" -> PrimaryParen(toks, cur)
           [] toks[cur].kind = "LeftBrace" -> PrimaryBlock(toks, cur)
           [] OTHER -> PPanic(cur)

\* if_expression, the optional `else` arm
ElseBranch(toks, condition, then_branch) ==
    IF Check(toks, then_branch.cur, "Else")
    THEN Try(Expression(toks, Advance(toks, then_branch.cur)), LAMBDA else_branch :
             POk(IfE(condition.node, then_branch.node, Some(else_branch.node)),
                 else_branch.cur))
    ELSE POk(IfE(condition.node, then_branch.node, None), then_branch.cur)

\* if_expression (the `if` token is consumed)
IfExpression(toks, cur) ==
    Try(Expression(toks, cur), LAMBDA condition :
    Try(Expression(toks, condition.cur), LAMBDA then_branch :
        ElseBranch(toks, condition, then_branch)))

\* while_expression (the `while` token is consumed)
WhileExpression(toks, cur) ==
    Try(Expression(toks, cur), LAMBDA condition :
    Try(Consume(toks, condition.cur, "LeftBrace"), LAMBDA open :
    Try(StatementLoop(toks, open.cur, <<>>), LAMBDA body :
    Try(Consume(toks, body.cur, "RightBrace"), LAMBDA close :
        POk(WhileE(condition.node, body.node), close.cur)))))

Expression(toks, cur) ==
    IF Check(toks, cur, "If") THEN IfExpression(toks, Advance(toks, cur))
    ELSE IF Check(toks, cur, "While") THEN WhileExpression(toks, Advance(toks, cur))
    ELSE Assignment(toks, cur)

\* let_statement (the `let` token is consumed)
LetStatement(toks, cur) ==
    Try(ConsumeIdentifier(toks, cur), LAMBDA name :
    Try(Consume(toks, name.cur, "Equal"), LAMBDA eq :
    Try(Expression(toks, eq.cur), LAMBDA value :
        POk(LetS(name.node, value.node), value.cur))))

\* the parameter `loop` of function_statement: Ok carries params
ParameterLoop(toks, cur, params) ==
    Try(ConsumeIdentifier(toks, cur), LAMBDA param :
        IF Check(toks, param.cur, "Comma")
        THEN ParameterLoop(toks, Advance(toks, param.cur), Append(params, param.node))
        ELSE POk(Append(params, param.node), param.cur))

\* function_statement, from the parameter list on
FunctionParams(toks, cur) ==
    IF Check(toks, cur, "RightParen") THEN POk(<<>>, Advance(toks, cur))
    ELSE Try(ParameterLoop(toks, cur, <<>>), LAMBDA params :
         Try(Consume(toks, params.cur, "RightParen"), LAMBDA close :
             POk(params.node, close.cur)))

\* function_statement (the `fn` token is consumed)
FunctionStatement(toks, cur) ==
    Try(ConsumeIdentifier(toks, cur), LAMBDA name :
    Try(Consume(toks, name.cur, "LeftParen"), LAMBDA open :
    Try(FunctionParams(toks, open.cur), LAMBDA params :
    Try(Expression(toks, params.cur), LAMBDA body :
        POk(FunctionS(name.node, params.node, body.node), body.cur)))))

\* statement, the `return` arm (the `return` token is consumed)
ReturnStatement(toks, cur) ==
    IF ~Check(toks, cur, "Semicolon") /\ ~Check(toks, cur, "Newline")
    THEN Try(Expression(toks, cur), LAMBDA value :
             POk(ReturnS(Some(value.node)), value.cur))
    ELSE POk(ReturnS(None), cur)

\* ExprOrResult that takes every expression before a line end for a Stmt::Expr
ExprOrResultBeforeLineEnd(toks, expr, cur) ==
    LET skipped == DeleteEmptyLines(toks, cur) IN
    IF Check(toks, cur, "Semicolon") \/ Check(toks, cur, "Newline")
    THEN POk(ExprS(expr), IF Check(toks, cur, "Semicolon") THEN cur ELSE skipped)
    ELSE IF IsAtLastNotEmptyLine(toks, cur) \/ IsAtBlockLastNotEmptyLine(toks, cur)
         THEN POk(ResultS(expr), skipped)
         ELSE PErr(UnexpectedToken(toks, skipped), skipped)

\* ExprOrResult that takes every expression before a line end for a Stmt::Result
ExprOrResultTailBeforeLineEnd(toks, expr, cur) ==
    LET skipped == DeleteEmptyLines(toks, cur) IN
    IF Check(toks, cur, "Semicolon") THEN POk(ExprS(expr), cur)
    ELSE IF \/ Check(toks, cur, "Newline")
            \/ IsAtLastNotEmptyLine(toks, cur)
            \/ IsAtBlockLastNotEmptyLine(toks, cur)
         THEN POk(ResultS(expr), skipped)
         ELSE PErr(UnexpectedToken(toks, skipped), skipped)

\* statement, the choice between Stmt::Expr and Stmt::Result for a bare
\* expression that ends at cur. Every is_at_* call leaves the cursor at
\* DeleteEmptyLines(toks, cur); a `;` is tested before any of them runs.
ExprOrResult(toks, expr, cur) ==
    LET skipped == DeleteEmptyLines(toks, cur) IN
    IF \/ Check(toks, cur, "Semicolon")
       \/ /\ Check(toks, cur, "Newline")
          /\ ~IsAtBlockLastNotEmptyLine(toks, cur)
          /\ ~IsAtLastNotEmptyLine(toks, cur)
    THEN POk(ExprS(expr), IF Check(toks, cur, "Semicolon") THEN cur ELSE skipped)
    ELSE IF IsAtLastNotEmptyLine(toks, cur) \/ IsAtBlockLastNotEmptyLine(toks, cur)
         THEN POk(ResultS(expr), skipped)
         ELSE PErr(UnexpectedToken(toks, skipped), skipped)

\* statement, after the statement itself: one separator is taken, a
\* declaration followed by neither a separator, the end nor `}` panics, and
\* the empty statements that follow are dropped.
StatementEnd(toks, stmt, cur) ==
    IF Check(toks, cur, "Semicolon") \/ Check(toks, cur, "Newline")
    THEN POk(stmt, DeleteEmptyStatements(toks, Advance(toks, cur)))
    ELSE IF /\ ~IsAtLastNotEmptyLine(toks, cur)
            /\ ~IsAtBlockLastNotEmptyLine(toks, cur)
            /\ stmt.type \notin {"Expr", "Result"}
         THEN PPanic(cur)
         ELSE POk(stmt, DeleteEmptyStatements(toks, cur))

\* statement, the `match self.current().kind` that yields stmt
StatementKind(toks, start) ==
    IF Check(toks, start, "Let") THEN LetStatement(toks, Advance(toks, start))
    ELSE IF Check(toks, start, "Fn") THEN FunctionStatement(toks, Advance(toks, start))
    ELSE IF Check(toks, start, "Return") THEN ReturnStatement(toks, Advance(toks, start))
    ELSE Try(Expression(toks, start), LAMBDA expr : ExprOrResult(toks, expr.node, expr.cur))

Statement(toks, cur) ==
    Try(StatementKind(toks, DeleteEmptyStatements(toks, cur)), LAMBDA stmt :
        StatementEnd(toks, stmt.node, stmt.cur))

\* Parser::parse drops the Comment tokens first
WithoutComments(toks) == SelectSeq(toks, LAMBDA t : t.kind # "Comment")

RECURSIVE ParseLoop(_, _, _)
\* `while !self.is_at_end()` of Parser::parse: Ok carries the program
ParseLoop(toks, cur, statements) ==
    IF ~IsAtEnd(toks, cur)
    THEN Try(Statement(toks, cur), LAMBDA stmt :
             ParseLoop(toks, stmt.cur, Append(statements, stmt.node)))
    ELSE POk(statements, cur)

\* parse
Parse(toks) == ParseLoop(WithoutComments(toks), 1, <<>>)

\* -------------------------------------------------------------------- lexer

\* A line of source text is the sequence of its characters. Of the
\* characters Lexer::tokenize has an arm for, the lines of the model are made
\* of these (no digit, no string literal):
Letters == {"a", "c", "e", "h", "i", "l", "p", "q", "r", "t", "u", "w", "x", "y"}
Blanks == {" ", "\t", "\r"}

\* enum LexerError
UnexpectedChar(c) == [kind |-> "UnexpectedChar", c |-> c]

\* Result<Vec<Token>, LexerError>
LOk(toks) == [tag |-> "Ok", toks |-> toks]
LErr(e) == [tag |-> "Err", err |-> e]

\* TokenKind::Comment(String)
CommentT(text) == [kind |-> "Comment", text |-> text]

RECURSIVE Concat(_)
\* the String the pushed characters make
Concat(chars) == IF chars = <<>> THEN "" ELSE Head(chars) \o Concat(Tail(chars))

\* `match ident.as_str()`: the keyword tokens, TokenKind::Identifier otherwise
WordToken(ident) ==
    CASE ident = "true" -> BoolT(TRUE)
      [] ident = "false" -> BoolT(FALSE)
      [] ident = "let" -> Tk("Let")
      [] ident = "fn" -> Tk("Fn")
      [] ident = "if" -> Tk("If")
      [] ident = "else" -> Tk("Else")
      [] ident = "while" -> Tk("While")
      [] ident = "return" -> Tk("Return")
      [] OTHER -> IdT(ident)

RECURSIVE IdentEnd(_, _)
\* the identifier loop: the position it stops at
IdentEnd(input, position) ==
    IF position <= Len(input) /\ (input[position] \in Letters \/ input[position] = "_")
    THEN IdentEnd(input, position + 1)
    ELSE position

RECURSIVE LineCommentEnd(_, _)
\* the loop of a `//` comment: the position it stops at (a line end, or the
\* end of the input)
LineCommentEnd(input, position) ==
    IF position <= Len(input) /\ input[position] # "\n"
    THEN LineCommentEnd(input, position + 1)
    ELSE position

RECURSIVE BlockComment(_, _, _, _)
\* the loop of a `/*` comment, `while depth > 0 && self.position + 1 <
\* self.input.len()`: the position it stops at and the comment it has
\* gathered. (position counts from 1 here, self.position from 0.)
BlockComment(input, position, depth, comment) ==
    IF depth > 0 /\ position < Len(input)
    THEN IF input[position] = "*" /\ input[position + 1] = "/"
         THEN IF depth - 1 = 0
              THEN [position |-> position + 2, comment |-> comment]
              ELSE BlockComment(input, position + 2, depth - 1, comment)
         ELSE IF input[position] = "/" /\ input[position + 1] = "*"
         THEN BlockComment(input, position + 2, depth + 1, comment)
         ELSE BlockComment(input, position + 1, depth, Append(comment, input[position]))
    ELSE [position |-> position, comment |-> comment]

\* the operator characters that make a token of their own
SingleKind(c) ==
    CASE c = "+" -> "Plus"
      [] c = "-" -> "Minus"
      [] c = "*" -> "Multiply"
      [] c = "(" -> "LeftParen"
      [] c = ")" -> "RightParen"
      [] c = "," -> "Comma"
      [] c = "{" -> "LeftBrace"
      [] c = "}" -> "RightBrace"
      [] c = ";" -> "Semicolon"

RECURSIVE TokenizeFrom(_, _, _)
\* Lexer::tokenize, the `while self.position < self.input.len()` loop
TokenizeFrom(input, position, toks) ==
    IF position > Len(input) THEN LOk(Append(toks, Tk("Eof")))
    ELSE LET c == input[position] IN
         CASE c \in Blanks -> TokenizeFrom(input, position + 1, toks)
           [] c = "\n" -> TokenizeFrom(input, position + 1, Append(toks, Tk("Newline")))
           [] c \in {"+", "-", "*", "(", ")", ",", "{", "}", ";"} ->
                 TokenizeFrom(input, position + 1, Append(toks, Tk(SingleKind(c))))
           [] c = "/" ->
                 IF position + 1 <= Len(input) /\ input[position + 1] = "/"
                 THEN LET end == LineCommentEnd(input, position + 1) IN
                      TokenizeFrom(input, end,
                                   Append(toks, CommentT(SubSeq(input, position + 1, end - 1))))
                 ELSE IF position + 1 <= Len(input) /\ input[position + 1] = "*"
                 THEN LET block == BlockComment(input, position + 2, 1, <<>>) IN
                      TokenizeFrom(input, block.position, Append(toks, CommentT(block.comment)))
                 ELSE TokenizeFrom(input, position + 1, Append(toks, Tk("Divide")))
           [] c = "=" ->
                 TokenizeFrom(input,
                              IF position + 1 <= Len(input) /\ input[position + 1] = "="
                              THEN position + 2 ELSE position + 1,
                              Append(toks, Tk("Equal")))
           [] c \in Letters \/ c = "_" ->
                 LET end == IdentEnd(input, position) IN
                 TokenizeFrom(input, end,
                              Append(toks, WordToken(Concat(SubSeq(input, position, end - 1)))))
           [] OTHER -> LErr(UnexpectedChar(c))

\* tokenize
Tokenize(input) == TokenizeFrom(input, 1, <<>>)

\* ------------------------------------------------------------ state machine

NoAst == [tag |-> "None", node |-> <<>>, cur |-> 0]
NoResult == [tag |-> "None", val |-> Nil, st |-> EvalState(EnvironmentNew, <<>>, 0)]

\* What a host prints for a command: `println!("=> {value:?}")` on standard
\* output, `eprintln!("Execution error: {e}")` and `eprintln!("Grammar error:
\* {e}")` on standard error; what carries the printed value or error.
NothingShown == [stream |-> "none", as |-> "nothing", what |-> Nil]
ShownValue(v) == [stream |-> "stdout", as |-> "=>", what |-> v]
ShownExecutionError(e) == [stream |-> "stderr", as |-> "Execution error", what |-> e]
ShownGrammarError(e) == [stream |-> "stderr", as |-> "Grammar error", what |-> e]
ShownLexicalError(e) == [stream |-> "stderr", as |-> "Lexical error", what |-> e]
ShownHelp == [stream |-> "stdout", as |-> "Available commands:", what |-> Nil]
ShownCleared == [stream |-> "stdout", as |-> "Environment cleared.", what |-> Nil]

\* the `match` of handle_command on what eval_with_env returned
HandleCommandReport(r) ==
    CASE r.tag = "Ok" -> ShownValue(r.val)
      [] r.tag = "Err" -> ShownExecutionError(r.val)
      [] OTHER -> NothingShown

\* the `match result` of run_file
RunFileReport(r) ==
    CASE r.tag = "Ok" -> ShownValue(r.val)
      [] r.tag = "Err" /\ r.val.kind = "Return" -> ShownValue(r.val.val)
      [] r.tag = "Err" -> ShownExecutionError(r.val)
      [] OTHER -> NothingShown

\* The state after `let mut env = Environment::new()` of the host h, with
\* the commands of `session` still to be read (run_file reads one: the file).
StartHost(h, session) ==
    /\ host = h
    /\ shown = NothingShown
    /\ pending = session
    /\ cmd = <<>>
    /\ tokens = <<>>
    /\ stage = "read"
    /\ ast = NoAst
    /\ env = EnvironmentNew
    /\ before = EnvironmentNew
    /\ result = NoResult

\* run_repl
Start(session) == StartHost("repl", session)

\* The host reads the next line (run_repl) or the file (run_file); its tokens
\* are what tokenize hands on.
ReadCommand ==
    /\ stage \in {"read", "failed", "done"}
    /\ pending # <<>>
    /\ tokens' = Head(pending)
    /\ pending' = Tail(pending)
    /\ stage' = "tokens"
    /\ ast' = NoAst
    /\ result' = NoResult
    /\ shown' = NothingShown
    /\ UNCHANGED <<cmd, env, before, host>>

\* handle_command and run_file: parser::parse(tokens); a grammar error ends
\* the command (run_file returns it to its caller)
ParseCommand ==
    /\ stage = "tokens"
    /\ ast' = Parse(tokens)
    /\ stage' = CASE ast'.tag = "Ok" -> "parsed"
                  [] ast'.tag = "Err" -> "failed"
                  [] ast'.tag = "Panic" -> "aborted"
    /\ shown' = IF ast'.tag = "Err" THEN ShownGrammarError(ast'.node) ELSE NothingShown
    /\ UNCHANGED <<pending, cmd, tokens, env, before, result, host>>

\* handle_command and run_file: eval_with_env(ast, env) and the report of
\* what it returned
EvalCommand ==
    /\ stage = "parsed"
    /\ result' = EvalWithEnv(ast.node, EvalState(env, <<>>, MaxSteps))
    /\ env' = result'.st.env
    /\ before' = env
    /\ stage' = CASE result'.tag \in {"Ok", "Err"} -> "done"
                  [] result'.tag = "Panic" -> "aborted"
                  [] result'.tag = "Diverge" -> "running"
    /\ shown' = IF host = "file" THEN RunFileReport(result') ELSE HandleCommandReport(result')
    /\ UNCHANGED <<pending, cmd, tokens, ast, host>>

Next == ReadCommand \/ ParseCommand \/ EvalCommand

\* run_repl reads the next line, trimmed and not empty, and handle_command
\* matches it: `exit` ends the loop (handle_command returns false), `help`
\* and `clear` are done at once, any other line is tokenized; a lexical
\* error ends the command.
ReadLine ==
    /\ host = "repl"
    /\ stage \in {"read", "failed", "done"}
    /\ pending # <<>>
    /\ cmd' = Head(pending)
    /\ pending' = Tail(pending)
    /\ ast' = NoAst
    /\ result' = NoResult
    /\ LET lexed == Tokenize(cmd') IN
       CASE Concat(cmd') = "exit" ->
               /\ stage' = "exited"
               /\ shown' = NothingShown
               /\ UNCHANGED <<tokens, env>>
         [] Concat(cmd') = "help" ->
               /\ stage' = "read"
               /\ shown' = ShownHelp
               /\ UNCHANGED <<tokens, env>>
         [] Concat(cmd') = "clear" ->
               /\ stage' = "read"
               /\ env' = EnvironmentNew
               /\ shown' = ShownCleared
               /\ UNCHANGED tokens
         [] OTHER ->
               /\ stage' = IF lexed.tag = "Ok" THEN "tokens" ELSE "failed"
               /\ tokens' = IF lexed.tag = "Ok" THEN lexed.toks ELSE <<>>
               /\ shown' = IF lexed.tag = "Ok" THEN NothingShown
                           ELSE ShownLexicalError(lexed.err)
               /\ UNCHANGED env
    /\ UNCHANGED <<before, host>>

\* run_repl over lines of source text
NextRepl == ReadLine \/ ParseCommand \/ EvalCommand

\* ------------------------------------------------------------ token streams

RECURSIVE Cat(_)
\* the concatenation of a sequence of token streams
Cat(parts) == IF parts = <<>> THEN <<>> ELSE Head(parts) \o Cat(Tail(parts))

Eof == <<Tk("Eof")>>
Semi == <<Tk("Semicolon")>>
NL == <<Tk("Newline")>>
LBrace == <<Tk("LeftBrace")>>
RBrace == <<Tk("RightBrace")>>
LParen == <<Tk("LeftParen")>>
RParen == <<Tk("RightParen")>>
Num(i) == <<NumT(i)>>
Id(name) == <<IdT(name)>>
Op(kind) == <<Tk(kind)>>

\* `let name = value`
LetT(name, value) == <<Tk("Let"), IdT(name), Tk("Equal")>> \o value
\* `name = value`
AssignT(name, value) == <<IdT(name), Tk("Equal")>> \o value
\* `{ body }`
BlockT(body) == LBrace \o body \o RBrace
\* `name(arg)` and `name()`
CallT(name, arg) == <<IdT(name), Tk("LeftParen")>> \o arg \o RParen
\* `fn name(param) { body }` and `fn name() { body }` (param = <<>>)
FnT(name, param, body) ==
    <<Tk("Fn"), IdT(name), Tk("LeftParen")>> \o param \o RParen \o BlockT(body)
\* `while condition { body }`
WhileT(condition, body) == <<Tk("While")>> \o condition \o BlockT(body)
\* `if condition { then }` and `if condition { then } else { else }`
IfT(condition, then) == <<Tk("If")>> \o condition \o BlockT(then)
IfElseT(condition, then, else) ==
    <<Tk("If")>> \o condition \o BlockT(then) \o <<Tk("Else")>> \o BlockT(else)

\* ------------------------------------------------------------------- bounds

\* the literals of the arithmetic programs are 1..MaxLiteral
MaxLiteral == 3

\* --------------------------------------------- C2: operator precedence

ArithmeticOps == {"Plus", "Minus", "Multiply", "Divide"}
AdditiveOps == {"Plus", "Minus"}
MultiplicativeOps == {"Multiply", "Divide"}

\* the token stream `a op1 b op2 c`
PrecedenceTokens(a, op1, b, op2, c) == Cat(<<Num(a), Op(op1), Num(b), Op(op2), Num(c), Eof>>)

PrecedenceSessions ==
    { <<PrecedenceTokens(a, op1, b, op2, c)>> :
        a \in 1..MaxLiteral, b \in 1..MaxLiteral, c \in 1..MaxLiteral,
        op1 \in ArithmeticOps, op2 \in ArithmeticOps }

InitPrecedence == \E session \in PrecedenceSessions : Start(session)
SpecPrecedence == InitPrecedence /\ [][Next]_vars

Lit(i) == NumberE(IntNum(i))

\* the grouping the claim states for `a op1 b op2 c`
PrecedenceGrouping(a, op1, b, op2, c) ==
    IF op1 \in AdditiveOps /\ op2 \in MultiplicativeOps
    THEN BinaryOpE(Lit(a), op1, BinaryOpE(Lit(b), op2, Lit(c)))
    ELSE BinaryOpE(BinaryOpE(Lit(a), op1, Lit(b)), op2, Lit(c))

\* C2: for every token stream `a op1 b op2 c` over literals the parser
\* returns the one statement whose expression groups the higher-precedence
\* operator first and operators of one level to the left, and `1 + 2 * 3`
\* evaluates to Number 7.
C2_Precedence ==
    /\ \A a \in 1..MaxLiteral, b \in 1..MaxLiteral, c \in 1..MaxLiteral,
          op1 \in ArithmeticOps, op2 \in ArithmeticOps :
          (stage \notin {"read", "tokens"} /\ tokens = PrecedenceTokens(a, op1, b, op2, c))
          => ast = POk(<<ResultS(PrecedenceGrouping(a, op1, b, op2, c))>>, 6)
    /\ (stage \notin {"read", "tokens", "parsed"}
        /\ tokens = PrecedenceTokens(1, "Plus", 2, "Multiply", 3))
       => (result.tag = "Ok" /\ result.val = NumberV(IntNum(7)))

C2_Witness ==
    /\ stage = "done"
    /\ tokens = PrecedenceTokens(1, "Plus", 2, "Multiply", 3)
    /\ ast.tag = "Ok"
    /\ result.val = NumberV(IntNum(7))

\* --------------------------------- C1: the value of a straight-line program

\* the statements a straight-line program has at most
MaxStatements == 3

RECURSIVE Join(_, _)
\* the token streams `parts` with `sep` between them
Join(parts, sep) ==
    IF parts = <<>> THEN <<>>
    ELSE IF Len(parts) = 1 THEN parts[1]
    ELSE parts[1] \o sep \o Join(Tail(parts), sep)

\* `let x = 1`, `x = 2`, `fn f() { 3 }`, `x`, `2`, and `y`, which nothing binds
StraightLinePool ==
    { LetT("x", Num(1)), AssignT("x", Num(2)), FnT("f", <<>>, Num(3)),
      Id("x"), Num(2), Id("y") }

\* up to MaxStatements statements with `;` between them, the last one with
\* or without a `;` after it; and the empty program
StraightLineSessions ==
    { <<Join(items, Semi) \o end \o Eof>> :
        items \in UNION { [1..n -> StraightLinePool] : n \in 1..MaxStatements },
        end \in {<<>>, Semi} }
    \cup { <<Eof>> }

InitProgram == \E session \in StraightLineSessions : Start(session)
SpecProgram == InitProgram /\ [][Next]_vars

\* What the claim says of one straight-line statement executed in e: the
\* value of its expression, whether it can be executed at all, the
\* environment it leaves, and the value it yields.
StraightValue(expr, e) ==
    CASE expr.type = "Number" -> NumberV(expr.num)
      [] expr.type = "Variable" -> e[expr.name].value
      [] expr.type = "BinaryOp" -> NumberV(expr.right.num)

Executes(stmt, e) ==
    ~(stmt.type \in {"Expr", "Result"} /\ stmt.expr.type = "Variable"
      /\ (stmt.expr.name \notin DOMAIN e \/ e[stmt.expr.name].kind # "Variable"))

StraightEffect(stmt, e) ==
    CASE stmt.type = "Let" -> (stmt.name :> VariableB(NumberV(stmt.value.num))) @@ e
      [] stmt.type = "Function" -> (stmt.name :> FunctionB(stmt.params, stmt.body)) @@ e
      [] stmt.type \in {"Expr", "Result"} /\ stmt.expr.type = "BinaryOp" ->
            (stmt.expr.left.name :> VariableB(NumberV(stmt.expr.right.num))) @@ e
      [] OTHER -> e

StraightYield(stmt, e) == IF stmt.type = "Result" THEN StraightValue(stmt.expr, e) ELSE Nil

RECURSIVE InOrder(_, _, _, _)
\* the statements program[i..] executed in order from e, `last` being the
\* value of the statement executed before them
InOrder(program, i, last, e) ==
    IF i > Len(program) THEN [tag |-> "Ok", val |-> last, env |-> e]
    ELSE IF ~Executes(program[i], e)
         THEN [tag |-> "Err", val |-> UndefinedVariable(program[i].expr.name), env |-> e]
    ELSE InOrder(program, i + 1, StraightYield(program[i], e), StraightEffect(program[i], e))

\* C1: eval_with_env executes the statements of a program in order (each one
\* in the environment the ones before it left, none after one that fails)
\* and returns Nil for the empty program, otherwise the value of the last
\* statement executed: Nil for a Let, a Function or an Expr statement, the
\* value of its expression for a Result statement.
C1_LastStatementValue ==
    stage = "done" =>
        LET expected == InOrder(ast.node, 1, Nil, before) IN
        /\ result.tag = expected.tag
        /\ result.val = expected.val
        /\ env = expected.env
        /\ (ast.node = <<>> => result.val = Nil)

\* `let x = 1; x = 2; x` has run: in order, to the value of its Result statement
C1_Witness ==
    /\ stage = "done"
    /\ tokens = Join(<<LetT("x", Num(1)), AssignT("x", Num(2)), Id("x")>>, Semi) \o Eof
    /\ ast.node[3].type = "Result"
    /\ result.tag = "Ok"
    /\ result.val = NumberV(IntNum(2))

\* ------------------------------ C3, C4: where a bare expression statement ends

\* the pieces a layout has at most
MaxItems == 5

\* `1`, `;`, a line end, `{`, `}`, `while true {` and `let x = 1`
LayoutPool ==
    { Num(1), Semi, NL, LBrace, RBrace, <<Tk("While"), BoolT(TRUE), Tk("LeftBrace")>>,
      LetT("x", Num(1)) }

\* the pieces of a layout that open a block or a while body, at most
MaxOpen == 2

\* the pieces that end in `{`
Opening(layout) == { i \in DOMAIN layout : layout[i][Len(layout[i])].kind = "LeftBrace" }

\* every sequence of up to MaxItems pieces, at most MaxOpen of them opening,
\* as one command
LayoutSessions ==
    { <<Cat(items) \o Eof>> :
        items \in { layout \in UNION { [1..n -> LayoutPool] : n \in 1..MaxItems } :
                      Cardinality(Opening(layout)) <= MaxOpen } }

InitLayout == \E session \in LayoutSessions : Start(session)
SpecLayout == InitLayout /\ [][Next]_vars

RECURSIVE StatementKinds(_)
RECURSIVE SequenceKinds(_, _)
\* Expr or Result for every bare expression statement of stmts[i..], in the
\* order in which the statements end (a statement nested in a block or in a
\* while body ends before the statement that holds it)
SequenceKinds(stmts, i) ==
    IF i > Len(stmts) THEN <<>>
    ELSE StatementKinds(stmts[i]) \o SequenceKinds(stmts, i + 1)

StatementKinds(stmt) ==
    IF stmt.type \notin {"Expr", "Result"} THEN <<>>
    ELSE (CASE stmt.expr.type = "Block" -> SequenceKinds(stmt.expr.statements, 1)
            [] stmt.expr.type = "While" -> SequenceKinds(stmt.expr.body, 1)
            [] OTHER -> <<>>) \o <<stmt.type>>

RECURSIVE SkipNewlines(_, _)
\* the first place from p on that holds no Newline token
SkipNewlines(toks, p) ==
    IF toks[p].kind = "Newline" THEN SkipNewlines(toks, p + 1) ELSE p

\* In a layout a bare expression statement ends at a literal that is not
\* the value of a let, or at the `}` of a block or of a while. What the
\* claim says of the one ending at p:
ClaimedKind(toks, p) ==
    IF /\ toks[p + 1].kind # "Semicolon"
       /\ toks[SkipNewlines(toks, p + 1)].kind \in {"Eof", "RightBrace"}
    THEN "Result"
    ELSE IF toks[p + 1].kind \in {"Semicolon", "Newline"} THEN "Expr"
    ELSE "Neither"

RECURSIVE ClaimedKinds(_, _)
ClaimedKinds(toks, p) ==
    IF p >= Len(toks) THEN <<>>
    ELSE (IF \/ toks[p].kind = "RightBrace"
             \/ toks[p].kind = "Number" /\ (p = 1 \/ toks[p - 1].kind # "Equal")
          THEN <<ClaimedKind(toks, p)>> ELSE <<>>) \o ClaimedKinds(toks, p + 1)

\* C3: in every layout the parser accepts, a bare expression statement is a
\* Stmt::Result exactly when no `;` follows it and the first token after the
\* Newline tokens that follow it is the end of input or a `}`; it is a
\* Stmt::Expr when a `;` follows it, or a Newline with another statement
\* after it.
C3_TailDisambiguation ==
    ast.tag = "Ok" => SequenceKinds(ast.node, 1) = ClaimedKinds(tokens, 1)

\* `1` on a line of its own and then `{ 1 }` has been parsed
C3_Witness ==
    /\ tokens = Cat(<<Num(1), NL, LBrace, Num(1), RBrace, Eof>>)
    /\ ast.tag = "Ok"
    /\ ast.node = <<ExprS(Lit(1)), ResultS(BlockE(<<ResultS(Lit(1))>>))>>

RECURSIVE ResultOnlyLast(_)
RECURSIVE ResultOnlyLastBelow(_)
\* neither stmts nor a statement sequence nested in one of its statements
\* holds a Stmt::Result before its last element
ResultOnlyLast(stmts) ==
    /\ \A i \in 1..(Len(stmts) - 1) : stmts[i].type # "Result"
    /\ \A i \in 1..Len(stmts) : ResultOnlyLastBelow(stmts[i])

\* the same of the statement sequences below a statement or an expression
ResultOnlyLastBelow(node) ==
    CASE node.type \in {"Expr", "Result"} -> ResultOnlyLastBelow(node.expr)
      [] node.type = "Let" -> ResultOnlyLastBelow(node.value)
      [] node.type = "Block" -> ResultOnlyLast(node.statements)
      [] node.type = "While" ->
            ResultOnlyLastBelow(node.condition) /\ ResultOnlyLast(node.body)
      [] OTHER -> TRUE

\* C4: in every AST that parse returns, a Stmt::Result is the last element of
\* the statement sequence that holds it (the program, a block, a while body).
C4_ResultOnlyLast == ast.tag = "Ok" => ResultOnlyLast(ast.node)

\* a block of two statements has been parsed: its first is an Expr, its last
\* the Result
C4_Witness ==
    /\ ast.tag = "Ok"
    /\ Len(ast.node) = 1
    /\ ast.node[1].type = "Result"
    /\ ast.node[1].expr.type = "Block"
    /\ Len(ast.node[1].expr.statements) = 2
    /\ ast.node[1].expr.statements[1].type = "Expr"
    /\ ast.node[1].expr.statements[2].type = "Result"

\* ------------------------------------------------------ C5: block scoping

\* `let x = 2`, `x = 3`, `fn f() { 1 }`, `{ let x = 4 }`, `x`, `let z = x`,
\* and `y`, which nothing binds
BlockPool ==
    { LetT("x", Num(2)), AssignT("x", Num(3)), FnT("f", <<>>, Num(1)),
      BlockT(LetT("x", Num(4))), Id("x"), LetT("z", Id("x")), Id("y") }

\* `{ let x = 1; { let x = 2; x } }`
NestedBlock ==
    BlockT(Join(<<LetT("x", Num(1)), BlockT(Join(<<LetT("x", Num(2)), Id("x")>>, Semi))>>,
                Semi)) \o Eof

\* `{ let x = 1; { let x = 2; x }; x }`
NestedBlockThenOuter ==
    BlockT(Join(<<LetT("x", Num(1)), BlockT(Join(<<LetT("x", Num(2)), Id("x")>>, Semi)),
                  Id("x")>>, Semi)) \o Eof

\* one block of up to MaxStatements statements as a command, in the
\* environment of a new session or after the command `let x = 1`
BlockCommands ==
    { BlockT(Join(items, Semi)) \o Eof :
        items \in UNION { [1..n -> BlockPool] : n \in 0..MaxStatements } }
    \cup { NestedBlock, NestedBlockThenOuter }

BlockSessions ==
    { <<block>> : block \in BlockCommands }
    \cup { <<LetT("x", Num(1)) \o Eof, block>> : block \in BlockCommands }

InitBlock == \E session \in BlockSessions : Start(session)
SpecBlock == InitBlock /\ [][Next]_vars

\* the program is one block
IsBlockProgram ==
    /\ ast.tag = "Ok"
    /\ Len(ast.node) = 1
    /\ ast.node[1].type \in {"Expr", "Result"}
    /\ ast.node[1].expr.type = "Block"

\* C5: evaluating a block in environment E leaves E as it was, whatever the
\* statements of the block do and whether the block returns a value or an
\* error; inside the block an inner `let x` shadows the outer x:
\* `{ let x = 1; { let x = 2; x } }` yields 2, and after the inner block the
\* outer x is still 1.
C5_BlockScoping ==
    /\ (stage = "done" /\ IsBlockProgram) => env = before
    /\ (stage = "done" /\ tokens = NestedBlock)
       => (result.tag = "Ok" /\ result.val = NumberV(IntNum(2)))
    /\ (stage = "done" /\ tokens = NestedBlockThenOuter)
       => (result.tag = "Ok" /\ result.val = NumberV(IntNum(1)))

\* after `let x = 1` the block `{ x = 3; x }` has yielded 3 and x is still 1
C5_Witness ==
    /\ stage = "done"
    /\ tokens = BlockT(Join(<<AssignT("x", Num(3)), Id("x")>>, Semi)) \o Eof
    /\ result.tag = "Ok"
    /\ result.val = NumberV(IntNum(3))
    /\ "x" \in DOMAIN before
    /\ env["x"] = VariableB(NumberV(IntNum(1)))

\* --------------------------------------------------- C6, C7: while loops

\* x + 1, x + 2 and x * 2
Sum(name, i) == Cat(<<Id(name), Op("Plus"), Num(i)>>)
Twice(name) == Cat(<<Id(name), Op("Multiply"), Num(2)>>)

LoopKinds == {"Assign", "AssignSemi", "LetThenAssign", "AssignThenTwice", "Let", "AssignTwo"}

\* the body of each kind of loop
LoopBody(kind) ==
    CASE kind = "Assign" -> AssignT("x", Sum("x", 1))
      [] kind = "AssignSemi" -> AssignT("x", Sum("x", 1)) \o Semi
      [] kind = "LetThenAssign" -> Join(<<LetT("y", Id("x")), AssignT("x", Sum("x", 1))>>, Semi)
      [] kind = "AssignThenTwice" -> Join(<<AssignT("x", Sum("x", 1)), Twice("x")>>, NL)
      [] kind = "Let" -> LetT("x", Sum("x", 1))
      [] kind = "AssignTwo" -> AssignT("x", Sum("x", 2))

\* `let x = a; while x < b { body }`
LoopTokens(kind, a, b) ==
    Join(<<LetT("x", Num(a)),
           WhileT(Cat(<<Id("x"), Op("LessThan"), Num(b)>>), LoopBody(kind))>>, Semi) \o Eof

\* `{ let x = 0; while x < 3 { x = x + 1 } }`
LoopInBlock ==
    BlockT(Join(<<LetT("x", Num(0)),
                  WhileT(Cat(<<Id("x"), Op("LessThan"), Num(3)>>), LoopBody("Assign"))>>,
                Semi)) \o Eof

LoopSessions ==
    { <<LoopTokens(kind, a, b)>> : kind \in LoopKinds, a \in 0..MaxLiteral, b \in 0..MaxLiteral }
    \cup { <<LoopInBlock>> }

InitLoop == \E session \in LoopSessions : Start(session)
SpecLoop == InitLoop /\ [][Next]_vars

\* what each iteration adds to x
LoopStep(kind) == IF kind = "AssignTwo" THEN 2 ELSE 1

\* the iterations that take x from a to b or beyond
Iterations(kind, a, b) ==
    IF a >= b THEN 0 ELSE (b - a + LoopStep(kind) - 1) \div LoopStep(kind)

\* the value of the last statement of the body in iteration i
IterationValue(kind, a, i) ==
    CASE kind \in {"Assign", "LetThenAssign"} -> NumberV(IntNum(a + i))
      [] kind = "AssignTwo" -> NumberV(IntNum(a + 2 * i))
      [] kind = "AssignThenTwice" -> NumberV(IntNum(2 * (a + i)))
      [] kind \in {"AssignSemi", "Let"} -> Nil

\* C6: a while expression yields Nil when its condition is false on the
\* first test; otherwise it yields the array whose length is the number of
\* iterations executed and whose i-th element is the value of the last
\* statement of the body in iteration i; `{ let x = 0; while x < 3 { x = x + 1 } }`
\* yields [1, 2, 3].
C6_LoopAccumulation ==
    /\ \A kind \in LoopKinds, a \in 0..MaxLiteral, b \in 0..MaxLiteral :
          (stage \notin {"read", "tokens", "parsed"} /\ tokens = LoopTokens(kind, a, b))
          => /\ result.tag = "Ok"
             /\ result.val =
                    IF Iterations(kind, a, b) = 0 THEN Nil
                    ELSE VectorV([i \in 1..Iterations(kind, a, b) |->
                                     IterationValue(kind, a, i)])
    /\ (stage \notin {"read", "tokens", "parsed"} /\ tokens = LoopInBlock)
       => /\ result.tag = "Ok"
          /\ result.val = VectorV(<<NumberV(IntNum(1)), NumberV(IntNum(2)), NumberV(IntNum(3))>>)

\* `let x = 1; while x < 3 { x = x + 1 \n x * 2 }` has yielded [4, 6]
C6_Witness ==
    /\ stage = "done"
    /\ tokens = LoopTokens("AssignThenTwice", 1, 3)
    /\ result.val = VectorV(<<NumberV(IntNum(4)), NumberV(IntNum(6))>>)

\* the environment `let x = a; while x < b { body }` is to leave
LoopEnvironment(kind, a, b) ==
    LET n == Iterations(kind, a, b)
        x == a + n * LoopStep(kind)
    IN  IF kind = "LetThenAssign" /\ n > 0
        THEN ("x" :> VariableB(NumberV(IntNum(x)))) @@ ("y" :> VariableB(NumberV(IntNum(x - 1))))
             @@ EnvironmentNew
        ELSE ("x" :> VariableB(NumberV(IntNum(x)))) @@ EnvironmentNew

\* C7: a while loop opens no scope: what an assignment or a let placed
\* directly in its body writes is written to the environment the loop is
\* evaluated in, is seen by the condition on its next test (the loop ends
\* after the iterations that take x to b), and is there after the loop.
C7_LoopSharesScope ==
    \A kind \in LoopKinds, a \in 0..MaxLiteral, b \in 0..MaxLiteral :
        (stage \notin {"read", "tokens", "parsed"} /\ tokens = LoopTokens(kind, a, b))
        => /\ stage = "done"
           /\ env = LoopEnvironment(kind, a, b)
           /\ Iterations(kind, a, b) > 0
              => Len(result.val.items) = Iterations(kind, a, b)

\* `let x = 0; while x < 2 { let y = x; x = x + 1 }` has run: x is 2, y is 1
C7_Witness ==
    /\ stage = "done"
    /\ tokens = LoopTokens("LetThenAssign", 0, 2)
    /\ "y" \notin DOMAIN before
    /\ env["x"] = VariableB(NumberV(IntNum(2)))
    /\ env["y"] = VariableB(NumberV(IntNum(1)))

\* ------------------------------------------------ C8: return propagation

\* `return value`, `return` and `print(i)`
ReturnT(value) == <<Tk("Return")>> \o value
CallPrint(i) == CallT("print", Num(i))
\* `true`
TrueT == <<BoolT(TRUE)>>

ReturnKinds == {"First", "AfterPrint", "Bare", "InBlock", "InIf", "InWhile", "Deep", "Callee"}

\* the body of f(a) for each place of the return
ReturnBody(kind) ==
    CASE kind = "First" -> Join(<<ReturnT(Id("a")), CallPrint(1), Num(20)>>, Semi)
      [] kind = "AfterPrint" -> Join(<<CallPrint(0), ReturnT(Id("a")), CallPrint(1)>>, Semi)
      [] kind = "Bare" -> Join(<<CallPrint(0), ReturnT(<<>>), CallPrint(1)>>, Semi)
      [] kind = "InBlock" ->
            Join(<<BlockT(Join(<<ReturnT(Id("a")), CallPrint(1)>>, Semi)), CallPrint(2), Num(20)>>,
                 Semi)
      [] kind = "InIf" ->
            Join(<<IfT(Cat(<<Id("a"), Op("LessThan"), Num(2)>>), ReturnT(Num(10))),
                   CallPrint(2), Num(20)>>, Semi)
      [] kind = "InWhile" ->
            Join(<<WhileT(TrueT, Join(<<CallPrint(0), ReturnT(Id("a")), CallPrint(1)>>, Semi)),
                   CallPrint(2)>>, Semi)
      [] kind = "Deep" ->
            Join(<<IfT(TrueT, WhileT(TrueT, ReturnT(Id("a")))), CallPrint(1), Num(20)>>, Semi)
      [] kind = "Callee" ->
            Join(<<CallT("g", <<>>), CallPrint(2), ReturnT(Id("a")), CallPrint(3)>>, Semi)

\* `fn g() { return 1; print(1) }; fn f(a) { body }; f(k)`, or with
\* `let r = f(k); print(r); r` for the call when the caller goes on
ReturnTokens(kind, k, goes_on) ==
    Join(<<FnT("g", <<>>, Join(<<ReturnT(Num(1)), CallPrint(1)>>, Semi)),
           FnT("f", Id("a"), ReturnBody(kind)),
           IF goes_on
           THEN Join(<<LetT("r", CallT("f", Num(k))), CallT("print", Id("r")), Id("r")>>, Semi)
           ELSE CallT("f", Num(k))>>, Semi) \o Eof

ReturnSessions ==
    { <<ReturnTokens(kind, k, goes_on)>> :
        kind \in ReturnKinds, k \in 1..MaxLiteral, goes_on \in BOOLEAN }

InitReturn == \E session \in ReturnSessions : Start(session)
SpecReturn == InitReturn /\ [][Next]_vars

\* the value of the return that f(k) executes
ReturnedValue(kind, k) ==
    CASE kind = "Bare" -> Nil
      [] kind = "InIf" -> NumberV(IntNum(IF k < 2 THEN 10 ELSE 20))
      [] OTHER -> NumberV(IntNum(k))

\* what the body of f prints before that return
PrintedBefore(kind, k) ==
    CASE kind \in {"AfterPrint", "Bare", "InWhile"} -> <<0>>
      [] kind = "Callee" -> <<2>>
      [] kind = "InIf" -> IF k < 2 THEN <<>> ELSE <<2>>
      [] OTHER -> <<>>

\* the lines of standard output for the printed numbers
Lines(printed) == [i \in 1..Len(printed) |-> <<NumberV(IntNum(printed[i]))>>]

\* C8: when `return e` or a bare `return` is executed in the body of a user
\* function, at any depth of blocks, if-branches and while loops, no later
\* statement of the body is executed (nothing after it is printed) and the
\* call evaluates to Ok(value of e), Nil for the bare return; the Return
\* signal stays inside the call whose body raised it (the caller goes on).
C8_ReturnPropagation ==
    \A kind \in ReturnKinds, k \in 1..MaxLiteral, goes_on \in BOOLEAN :
        (stage \notin {"read", "tokens", "parsed"} /\ tokens = ReturnTokens(kind, k, goes_on))
        => /\ result.tag = "Ok"
           /\ result.val = ReturnedValue(kind, k)
           /\ result.st.out =
                  Lines(PrintedBefore(kind, k))
                  \o (IF goes_on THEN <<<<ReturnedValue(kind, k)>>>> ELSE <<>>)

\* f(3) has returned from inside `if true { while true { return a } }`
\* and its caller has gone on to print the 3
C8_Witness ==
    /\ stage = "done"
    /\ tokens = ReturnTokens("Deep", 3, TRUE)
    /\ result.val = NumberV(IntNum(3))
    /\ result.st.out = <<<<NumberV(IntNum(3))>>>>

\* ------------------------- C9: what the body of a user function can read

VisibilityKinds == {"Outer", "Sum", "InBlock", "InIf", "Param"}

\* the body of f(a): `y`, `a + y`, `{ y }`, `if a < 2 { y } else { a }`, `a`
VisibilityBody(kind) ==
    CASE kind = "Outer" -> Id("y")
      [] kind = "Sum" -> Cat(<<Id("a"), Op("Plus"), Id("y")>>)
      [] kind = "InBlock" -> BlockT(Id("y"))
      [] kind = "InIf" -> IfElseT(Cat(<<Id("a"), Op("LessThan"), Num(2)>>), Id("y"), Id("a"))
      [] kind = "Param" -> Id("a")

\* `let y = v; fn f(a) { body }; f(k)`
VisibilityTokens(kind, v, k) ==
    Join(<<LetT("y", Num(v)), FnT("f", Id("a"), VisibilityBody(kind)), CallT("f", Num(k))>>,
         Semi) \o Eof

VisibilitySessions ==
    { <<VisibilityTokens(kind, v, k)>> :
        kind \in VisibilityKinds, v \in 1..MaxLiteral, k \in 1..MaxLiteral }

InitVisibility == \E session \in VisibilitySessions : Start(session)
SpecVisibility == InitVisibility /\ [][Next]_vars

\* f(k) reads the caller's y
ReadsOuter(kind, k) == kind \in {"Outer", "Sum", "InBlock"} \/ (kind = "InIf" /\ k < 2)

\* C9: in the body of a user function only its parameters are visible as
\* variables: a name bound to a variable in the caller's environment that is
\* no parameter is not visible there, and a reference to it fails with
\* UndefinedVariable.
C9_OnlyParametersVisible ==
    \A kind \in VisibilityKinds, v \in 1..MaxLiteral, k \in 1..MaxLiteral :
        (stage \notin {"read", "tokens", "parsed"} /\ tokens = VisibilityTokens(kind, v, k))
        => IF ReadsOuter(kind, k)
           THEN result.tag = "Err" /\ result.val = UndefinedVariable("y")
           ELSE result.tag = "Ok" /\ result.val = NumberV(IntNum(k))

\* `let y = 3; fn f(a) { y }; f(1)` has run and f has read the caller's y
C9_Witness ==
    /\ stage = "done"
    /\ tokens = VisibilityTokens("Outer", 3, 1)
    /\ result.tag = "Ok"
    /\ result.val = NumberV(IntNum(3))

\* --------------------------------------- C10: recursion, mutual recursion

\* name - 1
Less(name) == Cat(<<Id(name), Op("Minus"), Num(1)>>)
\* `if name < 1 { then } else { else }`
IfBelowOne(name, then, else) == IfElseT(Cat(<<Id(name), Op("LessThan"), Num(1)>>), then, else)

RecursionKinds == {"Later", "Self", "Mutual"}

\* The definitions of each kind; p is the parameter of the first function:
\*   Later:  fn f(p) { g(p) }; fn g(b) { b + 1 }
\*   Self:   fn f(p) { if p < 1 { 0 } else { p + f(p - 1) } }
\*   Mutual: fn f(p) { if p < 1 { true } else { g(p - 1) } };
\*           fn g(b) { if b < 1 { false } else { f(b - 1) } }
RecursionDefinitions(kind, p) ==
    CASE kind = "Later" ->
            Join(<<FnT("f", Id(p), CallT("g", Id(p))), FnT("g", Id("b"), Sum("b", 1))>>, Semi)
      [] kind = "Self" ->
            FnT("f", Id(p),
                IfBelowOne(p, Num(0), Cat(<<Id(p), Op("Plus"), CallT("f", Less(p))>>)))
      [] kind = "Mutual" ->
            Join(<<FnT("f", Id(p), IfBelowOne(p, TrueT, CallT("g", Less(p)))),
                   FnT("g", Id("b"),
                       IfBelowOne("b", <<BoolT(FALSE)>>, CallT("f", Less("b"))))>>, Semi)

\* the function the body of f calls
Callee(kind) == IF kind = "Self" THEN "f" ELSE "g"

\* the names the parameter of f takes: one that is no function, and the
\* name of the function its body calls
ParameterNames(kind) == {"n", Callee(kind)}

\* the definitions and the call f(k) as one command, or as two
RecursionSession(kind, p, k, apart) ==
    IF apart
    THEN <<RecursionDefinitions(kind, p) \o Eof, CallT("f", Num(k)) \o Eof>>
    ELSE <<Join(<<RecursionDefinitions(kind, p), CallT("f", Num(k))>>, Semi) \o Eof>>

InitRecursion ==
    \E kind \in RecursionKinds, k \in 0..MaxLiteral, apart \in BOOLEAN :
        \E p \in ParameterNames(kind) : Start(RecursionSession(kind, p, k, apart))
SpecRecursion == InitRecursion /\ [][Next]_vars

\* the environment the definitions leave in a new session
DefinitionsEnvironment(kind, p) ==
    EvalWithEnv(Parse(RecursionDefinitions(kind, p) \o Eof).node,
                EvalState(EnvironmentNew, <<>>, MaxSteps)).st.env

\* the command that calls f(k) has been evaluated
Called(kind, p, k, apart) ==
    /\ stage \notin {"read", "tokens", "parsed"}
    /\ tokens = RecursionSession(kind, p, k, apart)[IF apart THEN 2 ELSE 1]
    /\ apart => before = DefinitionsEnvironment(kind, p)

\* what f(k) yields when the functions its body names are called
RecursionValue(kind, k) ==
    CASE kind = "Later" -> NumberV(IntNum(k + 1))
      [] kind = "Self" -> NumberV(IntNum((k * (k + 1)) \div 2))
      [] kind = "Mutual" -> BooleanV(k % 2 = 0)

\* f(k) comes to the call in its body
ReachesCall(kind, k) == kind = "Later" \/ k >= 1

\* C10: when a user function is called, every function definition bound in
\* the caller's environment at the time of the call whose name is not a
\* parameter of the callee (the callee itself and functions declared after
\* it included) is callable from the body of the callee: recursion and
\* mutual recursion yield their values. A parameter with the name of a
\* function hides it: the call by that name fails with UndefinedVariable.
C10_FunctionsCallable ==
    \A kind \in RecursionKinds, k \in 0..MaxLiteral, apart \in BOOLEAN :
        /\ Called(kind, "n", k, apart)
           => (result.tag = "Ok" /\ result.val = RecursionValue(kind, k))
        /\ Called(kind, Callee(kind), k, apart)
           => IF ReachesCall(kind, k)
              THEN result.tag = "Err" /\ result.val = UndefinedVariable(Callee(kind))
              ELSE result.tag = "Ok" /\ result.val = RecursionValue(kind, k)

\* C10 as the claim states it: every function definition bound in the
\* caller's environment at the time of the call is callable from the body
\* of the callee.
C10_EveryFunctionCallable ==
    \A kind \in RecursionKinds, k \in 0..MaxLiteral, apart \in BOOLEAN :
        \A p \in ParameterNames(kind) :
            Called(kind, p, k, apart)
            => (result.tag = "Ok" /\ result.val = RecursionValue(kind, k))

\* after the command that defines f and g, the command `f(3)` has gone
\* through f, g, f and g
C10_Witness ==
    /\ Called("Mutual", "n", 3, TRUE)
    /\ stage = "done"
    /\ GetFunction(before, "g") # None
    /\ result.val = BooleanV(FALSE)

\* ------------------------------- C11: where call arguments are evaluated

Comma == <<Tk("Comma")>>

ArgumentCallees == {"f", "vector", "print"}
ArgumentShapes == {"Right", "After"}

\* the second argument: `x + w` reads what the first argument wrote, `w` does not
SecondArgument(shape, w) == IF shape = "Right" THEN Sum("x", w) ELSE Num(w)

\* `fn f(a, b) { a + b }; callee(x = v, second)`, after `let x = 0` when
\* x is bound before the call
ArgumentTokens(callee, shape, v, w, bound) ==
    Join((IF bound THEN <<LetT("x", Num(0))>> ELSE <<>>)
         \o <<FnT("f", Cat(<<Id("a"), Comma, Id("b")>>), Cat(<<Id("a"), Op("Plus"), Id("b")>>)),
              CallT(callee, Cat(<<AssignT("x", Num(v)), Comma, SecondArgument(shape, w)>>))>>,
         Semi) \o Eof

ArgumentSessions ==
    { <<ArgumentTokens(callee, shape, v, w, bound)>> :
        callee \in ArgumentCallees, shape \in ArgumentShapes,
        v \in 1..MaxLiteral, w \in 1..MaxLiteral, bound \in BOOLEAN }

InitArguments == \E session \in ArgumentSessions : Start(session)
SpecArguments == InitArguments /\ [][Next]_vars

\* the values of the two arguments when the second is evaluated in the
\* environment the first has written to
ArgumentValues(shape, v, w) ==
    <<NumberV(IntNum(v)), NumberV(IntNum(IF shape = "Right" THEN v + w ELSE w))>>

\* what the call yields for those argument values
CallValue(callee, args) ==
    CASE callee = "f" -> NumberV(IntNum(args[1].num.n + args[2].num.n))
      [] callee = "vector" -> VectorV(args)
      [] callee = "print" -> Nil

\* C11: for every call, to a built-in or to a user function, the arguments
\* are evaluated left to right in the caller's environment: the binding that
\* the first argument `x = v` makes is visible to the argument to its right
\* and is in the caller's environment after the call.
C11_ArgumentsInCallerEnvironment ==
    \A callee \in ArgumentCallees, shape \in ArgumentShapes, bound \in BOOLEAN :
        \A v \in 1..MaxLiteral, w \in 1..MaxLiteral :
            (/\ stage \notin {"read", "tokens", "parsed"}
             /\ tokens = ArgumentTokens(callee, shape, v, w, bound))
            => /\ result.tag = "Ok"
               /\ result.val = CallValue(callee, ArgumentValues(shape, v, w))
               /\ Get(env, "x") = Some(NumberV(IntNum(v)))

\* `vector(x = 1, x + 2)` has failed on the x of its second argument, and
\* the x of the first argument is not in the caller's environment
C11_Witness ==
    /\ stage = "done"
    /\ tokens = ArgumentTokens("vector", "Right", 1, 2, FALSE)
    /\ result.tag = "Err"
    /\ result.val = UndefinedVariable("x")
    /\ "x" \notin DOMAIN env

\* ------------------------------------------ C12: argument count mismatch

\* the most parameters a function of the arity programs takes; calls pass
\* up to one argument more
MaxParams == 2

ArityNames == <<"a", "b", "c">>

\* the parameter list `a, b` of n parameters
ParameterList(n) == Join([i \in 1..n |-> Id(ArityNames[i])], Comma)

\* the body that adds the n parameters up: `7`, `a`, `a + b`
ArityBody(n) == IF n = 0 THEN Num(7) ELSE Join([i \in 1..n |-> Id(ArityNames[i])], Op("Plus"))

\* the n arguments `v, v + 1, ..`, each written as a literal
ArgumentList(n, v) == Join([i \in 1..n |-> Num(v + i - 1)], Comma)

\* `fn f(params) { body }; f(args)`, or with `let r = f(args); r` for the call
ArityTokens(np, na, v, bound) ==
    Join(<<FnT("f", ParameterList(np), ArityBody(np)),
           IF bound
           THEN Join(<<LetT("r", CallT("f", ArgumentList(na, v))), Id("r")>>, Semi)
           ELSE CallT("f", ArgumentList(na, v))>>, Semi) \o Eof

AritySessions ==
    { <<ArityTokens(np, na, v, bound)>> :
        np \in 0..MaxParams, na \in 0..(MaxParams + 1), v \in 1..MaxLiteral, bound \in BOOLEAN }

InitArity == \E session \in AritySessions : Start(session)
SpecArity == InitArity /\ [][Next]_vars

RECURSIVE SumFrom(_, _)
\* v + (v + 1) + .. over n terms
SumFrom(v, n) == IF n = 0 THEN 0 ELSE v + SumFrom(v + 1, n - 1)

\* C12: a call of a user function of np parameters with na arguments fails
\* with InvalidOperation when na differs from np, with fewer and with more
\* arguments (and the statement that holds the call binds nothing); with
\* na = np it yields the value of the body.
C12_ArityMismatch ==
    \A np \in 0..MaxParams, na \in 0..(MaxParams + 1), bound \in BOOLEAN :
        \A v \in 1..MaxLiteral :
            (/\ stage \notin {"read", "tokens", "parsed"}
             /\ tokens = ArityTokens(np, na, v, bound))
            => IF na # np
               THEN /\ result.tag = "Err"
                    /\ result.val.kind = "InvalidOperation"
                    /\ "r" \notin DOMAIN env
               ELSE /\ result.tag = "Ok"
                    /\ result.val = NumberV(IntNum(IF np = 0 THEN 7 ELSE SumFrom(v, np)))

\* `fn f(a, b) { a + b }; f(1)` and `.. f(1, 2, 3)` have failed with InvalidOperation
C12_Witness ==
    /\ stage = "done"
    /\ \/ tokens = ArityTokens(2, 1, 1, FALSE)
       \/ tokens = ArityTokens(2, 3, 1, FALSE)
    /\ result.tag = "Err"
    /\ result.val.kind = "InvalidOperation"

\* -------------------------------------------- C13: chained assignment

\* which of a and b are bound (to 0) before the assignment
ChainPriors == {<<>>, <<"a">>, <<"b">>, <<"a", "b">>}
ChainValues == {"Literal", "Sum"}

\* the right-hand side v: the literal, or `v + 1`
ChainValueT(kind, v) == IF kind = "Literal" THEN Num(v) ELSE Cat(<<Num(v), Op("Plus"), Num(1)>>)
ChainValueE(kind, v) == IF kind = "Literal" THEN Lit(v) ELSE BinaryOpE(Lit(v), "Plus", Lit(1))
ChainValueV(kind, v) == NumberV(IntNum(IF kind = "Literal" THEN v ELSE v + 1))

\* `a = b = v`, or `a = b = v;` then `a`
ChainStatement(kind, v, read) ==
    IF read THEN Join(<<AssignT("a", AssignT("b", ChainValueT(kind, v))), Id("a")>>, Semi)
    ELSE AssignT("a", AssignT("b", ChainValueT(kind, v)))

\* the lets of the prior bindings, then the chained assignment
ChainTokens(prior, kind, v, read) ==
    Join([i \in 1..Len(prior) |-> LetT(prior[i], Num(0))] \o <<ChainStatement(kind, v, read)>>,
         Semi) \o Eof

ChainSessions ==
    { <<ChainTokens(prior, kind, v, read)>> :
        prior \in ChainPriors, kind \in ChainValues, v \in 1..MaxLiteral, read \in BOOLEAN }

InitChain == \E session \in ChainSessions : Start(session)
SpecChain == InitChain /\ [][Next]_vars

\* the statement of the chained assignment in a parsed program
ChainParsed(prior) == ast.node[Len(prior) + 1]

\* C13: assignment is right-associative: `a = b = v` parses to
\* BinaryOp(Variable a, =, BinaryOp(Variable b, =, v)), and evaluating it
\* binds both a and b to the value of v and yields that value.
C13_AssignmentRightAssociative ==
    \A prior \in ChainPriors, kind \in ChainValues, v \in 1..MaxLiteral, read \in BOOLEAN :
        tokens = ChainTokens(prior, kind, v, read)
        => /\ stage # "tokens"
              => /\ ast.tag = "Ok"
                 /\ ChainParsed(prior).expr =
                        BinaryOpE(VariableE("a"), "Equal",
                                  BinaryOpE(VariableE("b"), "Equal", ChainValueE(kind, v)))
           /\ stage \notin {"tokens", "parsed"}
              => /\ result.tag = "Ok"
                 /\ result.val = ChainValueV(kind, v)
                 /\ Get(env, "a") = Some(ChainValueV(kind, v))
                 /\ Get(env, "b") = Some(ChainValueV(kind, v))

\* `a = b = 1` has been parsed to BinaryOp(BinaryOp(a, =, b), =, 1) and its
\* evaluation has failed on the assignment target without binding a or b
C13_Witness ==
    /\ stage = "done"
    /\ tokens = ChainTokens(<<>>, "Literal", 1, FALSE)
    /\ ast.node = <<ResultS(BinaryOpE(BinaryOpE(VariableE("a"), "Equal", VariableE("b")),
                                      "Equal", Lit(1)))>>
    /\ result.tag = "Err"
    /\ result.val = InvalidOperation("Invalid assignment target")
    /\ Get(env, "a") = None
    /\ Get(env, "b") = None

\* ------------------------------------------- C14: equality comparison

\* an operand value: the Number i, or the Boolean i = 1
NumberOperands == [ty : {"Number"}, i : 1..MaxLiteral]
BooleanOperands == [ty : {"Boolean"}, i : 0..1]

OperandT(o) == IF o.ty = "Number" THEN Num(o.i) ELSE <<BoolT(o.i = 1)>>
OperandV(o) == IF o.ty = "Number" THEN NumberV(IntNum(o.i)) ELSE BooleanV(o.i = 1)

\* the pairs of operands of one type
SameTypedPairs == (NumberOperands \X NumberOperands) \cup (BooleanOperands \X BooleanOperands)

EqualityOps == {"Equal", "NotEqual"}
OperandForms == {"Literal", "Variable"}

\* `let x = l; let y = r; left op right` where left is `x` or the literal of
\* l, and right is `y` or the literal of r
EqualityTokens(op, l, r, left, right) ==
    Join(<<LetT("x", OperandT(l)), LetT("y", OperandT(r)),
           Cat(<<IF left = "Variable" THEN Id("x") ELSE OperandT(l),
                 Op(op),
                 IF right = "Variable" THEN Id("y") ELSE OperandT(r)>>)>>, Semi) \o Eof

EqualitySessions ==
    { <<EqualityTokens(op, pair[1], pair[2], left, right)>> :
        op \in EqualityOps, pair \in SameTypedPairs,
        left \in OperandForms, right \in OperandForms }

InitEquality == \E session \in EqualitySessions : Start(session)
SpecEquality == InitEquality /\ [][Next]_vars

\* C14: `l == r` and `l != r` on two Numbers or two Booleans yield
\* Boolean(l == r) and Boolean(l != r) and change no binding of the
\* environment, also when l is a variable reference.
C14_EqualityComparison ==
    \A op \in EqualityOps, pair \in SameTypedPairs :
        \A left \in OperandForms, right \in OperandForms :
            (/\ stage \notin {"read", "tokens", "parsed"}
             /\ tokens = EqualityTokens(op, pair[1], pair[2], left, right))
            => /\ result.tag = "Ok"
               /\ result.val = BooleanV((pair[1] = pair[2]) = (op = "Equal"))
               /\ Get(env, "x") = Some(OperandV(pair[1]))
               /\ Get(env, "y") = Some(OperandV(pair[2]))

\* `let x = 1; let y = 2; x == y` has yielded the Number 2 and rebound x to 2
C14_Witness ==
    /\ stage = "done"
    /\ tokens = EqualityTokens("Equal", [ty |-> "Number", i |-> 1], [ty |-> "Number", i |-> 2],
                               "Variable", "Variable")
    /\ result.tag = "Ok"
    /\ result.val = NumberV(IntNum(2))
    /\ Get(env, "x") = Some(NumberV(IntNum(2)))

\* ------------------------------- C15: operand types of a binary operation

BinaryOps ==
    {"Plus", "Minus", "Multiply", "Divide",
     "GreaterThan", "GreaterThanOrEqual", "LessThan", "LessThanOrEqual", "NotEqual"}

OperandKinds == {"Number", "True", "False", "String", "Nil", "Vector"}

\* an operand of each kind: `1`, `true`, `false`, `"s"`, `{}`, `vector()`
KindT(kind) ==
    CASE kind = "Number" -> Num(1)
      [] kind = "True" -> <<BoolT(TRUE)>>
      [] kind = "False" -> <<BoolT(FALSE)>>
      [] kind = "String" -> <<StrT("s")>>
      [] kind = "Nil" -> BlockT(<<>>)
      [] kind = "Vector" -> CallT("vector", <<>>)

\* the Value type of the operand
KindType(kind) == IF kind \in {"True", "False"} THEN "Boolean" ELSE kind

\* `left op right`, the operands written out or read from variables:
\* `let x = left; let y = right; x op y`
BinaryTokens(op, lk, rk, named) ==
    IF named
    THEN Join(<<LetT("x", KindT(lk)), LetT("y", KindT(rk)), Cat(<<Id("x"), Op(op), Id("y")>>)>>,
              Semi) \o Eof
    ELSE Cat(<<KindT(lk), Op(op), KindT(rk), Eof>>)

BinarySessions ==
    { <<BinaryTokens(op, lk, rk, named)>> :
        op \in BinaryOps, lk \in OperandKinds, rk \in OperandKinds, named \in BOOLEAN }

InitBinary == \E session \in BinarySessions : Start(session)
SpecBinary == InitBinary /\ [][Next]_vars

\* C15: a binary operation other than an assignment whose operands both
\* evaluate: an operand pair that is neither Number-Number nor
\* Boolean-Boolean gives TypeMismatch (`true + 1` fails, nothing is coerced);
\* a Boolean-Boolean pair with an arithmetic or ordering operator gives
\* InvalidOperation; the other operations of the family yield a value.
C15_BinaryTypeErrors ==
    \A op \in BinaryOps, lk \in OperandKinds, rk \in OperandKinds, named \in BOOLEAN :
        (/\ stage \notin {"read", "tokens", "parsed"}
         /\ tokens = BinaryTokens(op, lk, rk, named))
        => IF ~(KindType(lk) = KindType(rk) /\ KindType(lk) \in {"Number", "Boolean"})
           THEN result.tag = "Err" /\ result.val.kind = "TypeMismatch"
           ELSE IF KindType(lk) = "Boolean" /\ op # "NotEqual"
           THEN result.tag = "Err" /\ result.val.kind = "InvalidOperation"
           ELSE result.tag = "Ok"

\* `true + 1` has failed with TypeMismatch
C15_Witness ==
    /\ stage = "done"
    /\ tokens = BinaryTokens("Plus", "True", "Number", FALSE)
    /\ result.tag = "Err"
    /\ result.val.kind = "TypeMismatch"

\* ------------------------------------ C16: conditions of `if` and `while`

ConditionShapes == {"If", "IfElse", "While"}

\* the condition: an operand of the kind, or the variable c bound to it
ConditionT(kind, named) == IF named THEN Id("c") ELSE KindT(kind)

\* `print(i); v`
PrintThen(i, v) == Join(<<CallPrint(i), v>>, Semi)

\* If:     if c { print(1); 10 }
\* IfElse: if c { print(1); 10 } else { print(2); 20 }
\* While:  fn f() { while c { print(1); return 5 }; 6 }; f()
\* each after `let c = condition` when the condition is read from c
ConditionTokens(shape, kind, named) ==
    Join((IF named THEN <<LetT("c", KindT(kind))>> ELSE <<>>)
         \o (CASE shape = "If" ->
                    <<IfT(ConditionT(kind, named), PrintThen(1, Num(10)))>>
               [] shape = "IfElse" ->
                    <<IfElseT(ConditionT(kind, named),
                              PrintThen(1, Num(10)), PrintThen(2, Num(20)))>>
               [] shape = "While" ->
                    <<FnT("f", <<>>,
                          Join(<<WhileT(ConditionT(kind, named), PrintThen(1, ReturnT(Num(5)))),
                                 Num(6)>>, Semi)),
                      CallT("f", <<>>)>>),
         Semi) \o Eof

ConditionSessions ==
    { <<ConditionTokens(shape, kind, named)>> :
        shape \in ConditionShapes, kind \in OperandKinds, named \in BOOLEAN }

InitCondition == \E session \in ConditionSessions : Start(session)
SpecCondition == InitCondition /\ [][Next]_vars

\* the value and the printed numbers when the condition is the Boolean b
ConditionValue(shape, b) ==
    CASE shape = "If" -> IF b THEN NumberV(IntNum(10)) ELSE Nil
      [] shape = "IfElse" -> NumberV(IntNum(IF b THEN 10 ELSE 20))
      [] shape = "While" -> NumberV(IntNum(IF b THEN 5 ELSE 6))

ConditionPrinted(shape, b) ==
    IF b THEN <<1>> ELSE IF shape = "IfElse" THEN <<2>> ELSE <<>>

\* C16: an `if` or a `while` whose condition is no Boolean fails with
\* TypeMismatch and runs no statement of a branch or of the body (nothing is
\* printed); with a Boolean condition the `if` evaluates exactly one branch:
\* the then-branch for true, the else-branch for false, Nil without an else.
C16_ConditionMustBeBoolean ==
    \A shape \in ConditionShapes, kind \in OperandKinds, named \in BOOLEAN :
        (/\ stage \notin {"read", "tokens", "parsed"}
         /\ tokens = ConditionTokens(shape, kind, named))
        => IF KindType(kind) # "Boolean"
           THEN /\ result.tag = "Err"
                /\ result.val.kind = "TypeMismatch"
                /\ result.st.out = <<>>
           ELSE /\ result.tag = "Ok"
                /\ result.val = ConditionValue(shape, kind = "True")
                /\ result.st.out = Lines(ConditionPrinted(shape, kind = "True"))

\* `if 1 { print(1); 10 } else { print(2); 20 }` has failed with
\* TypeMismatch and has printed nothing
C16_Witness ==
    /\ stage = "done"
    /\ tokens = ConditionTokens("IfElse", "Number", FALSE)
    /\ result.tag = "Err"
    /\ result.val.kind = "TypeMismatch"
    /\ result.st.out = <<>>

\* --------------------------------------------- C17: variable references

BuiltinNames == DOMAIN EnvironmentNew

\* x is bound to a variable, y is unbound, f is a user function, the others
\* are the built-ins
ReferenceNames == {"x", "y", "f"} \cup BuiltinNames

ReferenceContexts == {"Top", "Block", "Argument"}

\* `let x = v; fn f() { 1 }; reference` where the reference to the name
\* is `name`, `{ name }` or `vector(name)`
ReferenceTokens(name, context, v) ==
    Join(<<LetT("x", Num(v)), FnT("f", <<>>, Num(1)),
           CASE context = "Top" -> Id(name)
             [] context = "Block" -> BlockT(Id(name))
             [] context = "Argument" -> CallT("vector", Id(name))>>, Semi) \o Eof

ReferenceSessions ==
    { <<ReferenceTokens(name, context, v)>> :
        name \in ReferenceNames, context \in ReferenceContexts, v \in 1..MaxLiteral }

InitReference == \E session \in ReferenceSessions : Start(session)
SpecReference == InitReference /\ [][Next]_vars

\* C17: Variable(name) yields the bound value when the name is bound to a
\* variable, and fails with UndefinedVariable(name) when the name is
\* unbound or is bound to a user function or to a built-in.
C17_VariableLookup ==
    \A name \in ReferenceNames, context \in ReferenceContexts, v \in 1..MaxLiteral :
        (/\ stage \notin {"read", "tokens", "parsed"}
         /\ tokens = ReferenceTokens(name, context, v))
        => IF name = "x"
           THEN /\ result.tag = "Ok"
                /\ result.val = IF context = "Argument" THEN VectorV(<<NumberV(IntNum(v))>>)
                                ELSE NumberV(IntNum(v))
           ELSE /\ result.tag = "Err"
                /\ result.val = UndefinedVariable(name)

\* with f bound to a user function and print to a built-in, the references
\* `f` and `print` have failed with UndefinedVariable
C17_Witness ==
    /\ stage = "done"
    /\ GetFunction(env, "f") # None
    /\ env["print"].kind = "Builtin"
    /\ \/ tokens = ReferenceTokens("f", "Top", 1) /\ result.val = UndefinedVariable("f")
       \/ tokens = ReferenceTokens("print", "Top", 1) /\ result.val = UndefinedVariable("print")

\* ------------------------------------- C18: Int and Float in one operation

Subvariants == {"Int", "Float"}

\* the literal `i` (an Int) or `i.0` (a Float)
NumberT(sub, i) == IF sub = "Int" THEN Num(i) ELSE <<FloatT(i)>>

\* `l op r`, or `let x = l; let y = r; x op y`
MixedTokens(op, ls, l, rs, r, named) ==
    IF named
    THEN Join(<<LetT("x", NumberT(ls, l)), LetT("y", NumberT(rs, r)),
                Cat(<<Id("x"), Op(op), Id("y")>>)>>, Semi) \o Eof
    ELSE Cat(<<NumberT(ls, l), Op(op), NumberT(rs, r), Eof>>)

MixedSessions ==
    { <<MixedTokens(op, ls, l, rs, r, named)>> :
        op \in ArithmeticOps, ls \in Subvariants, rs \in Subvariants,
        l \in 1..MaxLiteral, r \in 1..MaxLiteral, named \in BOOLEAN }

InitMixed == \E session \in MixedSessions : Start(session)
SpecMixed == InitMixed /\ [][Next]_vars

\* C18: an arithmetic operator applied to one Int operand and one Float
\* operand produces the error value TypeMismatch: the evaluation returns
\* (it does not abort) and no operand is converted.
C18_MixedArithmeticIsTypeMismatch ==
    \A op \in ArithmeticOps, ls \in Subvariants, rs \in Subvariants, named \in BOOLEAN :
        \A l \in 1..MaxLiteral, r \in 1..MaxLiteral :
            (/\ stage \notin {"read", "tokens", "parsed"}
             /\ tokens = MixedTokens(op, ls, l, rs, r, named)
             /\ ls # rs)
            => /\ stage = "done"
               /\ result.tag = "Err"
               /\ result.val.kind = "TypeMismatch"

\* the evaluation of `1 + 2.0` has aborted
C18_Witness ==
    /\ tokens = MixedTokens("Plus", "Int", 1, "Float", 2, FALSE)
    /\ stage = "aborted"
    /\ result.tag = "Panic"

\* ----------------------------------- C19: malformed token sequences

\* the most pieces a malformed command is made of
MaxPieces == 3

\* `1`, `x`, `+`, `=`, `(`, `)`, `}`, `;` and `let x = 1`
MalformedPool ==
    { Num(1), Id("x"), Op("Plus"), Op("Equal"), LParen, RParen, RBrace, Semi, LetT("x", Num(1)) }

\* every sequence of up to MaxPieces pieces, as one command
MalformedSessions ==
    { <<Cat(pieces) \o Eof>> :
        pieces \in UNION { [1..n -> MalformedPool] : n \in 1..MaxPieces } }

InitMalformed == \E session \in MalformedSessions : Start(session)
SpecMalformed == InitMalformed /\ [][Next]_vars

\* `)`: a token that starts no expression where an expression is expected
UnexpectedTokenCase == RParen \o Eof
\* `let x = 1 1`: a declaration that no separator follows
MissingSeparatorCase == LetT("x", Num(1)) \o Num(1) \o Eof
\* `1 = 1`: an assignment to what is no variable
InvalidTargetCase == Cat(<<Num(1), Op("Equal"), Num(1), Eof>>)

\* C19: for every token sequence that ends in Eof, parse returns Ok(program)
\* or Err(ParserError) and never panics; an unexpected token where an
\* expression is expected, a declaration that no separator follows and an
\* invalid assignment target each come back as a ParserError.
C19_ParseNeverPanics ==
    ast.tag # "None"
    => /\ ast.tag \in {"Ok", "Err"}
       /\ tokens \in {UnexpectedTokenCase, MissingSeparatorCase, InvalidTargetCase}
          => ast.tag = "Err"

\* parse has panicked on `)`
C19_Witness ==
    /\ tokens = UnexpectedTokenCase
    /\ stage = "aborted"
    /\ ast.tag = "Panic"

\* ------------------------------- C20: a return at the top level of a program

Hosts == {"repl", "file"}

TopReturnKinds == {"Only", "Bare", "AfterPrint", "InBlock", "InIf", "InWhile", "AfterCall"}

\* the program, with the return at the top level or in a block, an
\* if-branch or a while body that is not part of any function body
TopReturnTokens(kind, v) ==
    (CASE kind = "Only" -> ReturnT(Num(v))
       [] kind = "Bare" -> Join(<<LetT("x", Num(v)), ReturnT(<<>>), CallPrint(1)>>, Semi)
       [] kind = "AfterPrint" -> Join(<<CallPrint(0), ReturnT(Num(v)), CallPrint(1)>>, Semi)
       [] kind = "InBlock" -> Join(<<BlockT(ReturnT(Num(v))), CallPrint(1)>>, Semi)
       [] kind = "InIf" -> Join(<<IfT(TrueT, ReturnT(Num(v))), CallPrint(1)>>, Semi)
       [] kind = "InWhile" -> Join(<<WhileT(TrueT, ReturnT(Num(v))), CallPrint(1)>>, Semi)
       [] kind = "AfterCall" ->
            Join(<<FnT("f", <<>>, ReturnT(Num(0))), CallT("f", <<>>), ReturnT(Num(v))>>, Semi))
    \o Eof

InitHosts ==
    \E h \in Hosts, kind \in TopReturnKinds, v \in 1..MaxLiteral :
        StartHost(h, <<TopReturnTokens(kind, v)>>)
SpecHosts == InitHosts /\ [][Next]_vars

\* the value of the return the program executes
TopReturnValue(kind, v) == IF kind = "Bare" THEN Nil ELSE NumberV(IntNum(v))

\* C20: when `return v` is executed at the top level of a program, outside
\* any call of a user function, both hosts report v as the successful result
\* of the program: run_file and handle_command print it as `=> v` and not
\* as an execution error.
C20_TopLevelReturnReported ==
    \A kind \in TopReturnKinds, v \in 1..MaxLiteral :
        (/\ stage \notin {"read", "tokens", "parsed"}
         /\ tokens = TopReturnTokens(kind, v))
        => /\ stage = "done"
           /\ shown = ShownValue(TopReturnValue(kind, v))

\* handle_command has reported the `return 1` of the command as
\* "Execution error"
C20_Witness ==
    /\ host = "repl"
    /\ stage = "done"
    /\ tokens = TopReturnTokens("Only", 1)
    /\ result = Err(ReturnSignal(NumberV(IntNum(1))), result.st)
    /\ shown = ShownExecutionError(ReturnSignal(NumberV(IntNum(1))))

\* ------------------------------------- C21: push and pop copy their array

\* the elements of an array, at most
MaxElements == 3

\* the arrays of up to MaxElements literals
ElementLists == UNION { [1..n -> 1..MaxLiteral] : n \in 0..MaxElements }

\* `i1, i2, ..` and the values of these literals
ElementsT(items) == Join([i \in 1..Len(items) |-> Num(items[i])], Comma)
ElementsV(items) == [i \in 1..Len(items) |-> NumberV(IntNum(items[i]))]

VectorKinds == {"Push", "Pop", "PushThenPop", "PushThenRead", "PopThenRead", "PushBound"}

\* `push(v, x)` and `pop(v)`
PushT(x) == CallT("push", Join(<<Id("v"), Num(x)>>, Comma))
PopT == CallT("pop", Id("v"))

\* what follows `let v = vector(items)` in each kind of program
VectorTail(kind, x) ==
    CASE kind = "Push" -> PushT(x)
      [] kind = "Pop" -> PopT
      [] kind = "PushThenPop" -> Join(<<PushT(x), PopT>>, Semi)
      [] kind = "PushThenRead" -> Join(<<PushT(x), Id("v")>>, Semi)
      [] kind = "PopThenRead" -> Join(<<PopT, Id("v")>>, Semi)
      [] kind = "PushBound" -> Join(<<LetT("w", PushT(x)), PopT>>, Semi)

\* `let v = vector(items); tail`
VectorTokens(kind, items, x) ==
    Join(<<LetT("v", CallT("vector", ElementsT(items))), VectorTail(kind, x)>>, Semi) \o Eof

VectorSessions ==
    { <<VectorTokens(kind, items, x)>> :
        kind \in VectorKinds, items \in ElementLists, x \in 1..(MaxLiteral + 1) }

InitVector == \E session \in VectorSessions : Start(session)
SpecVector == InitVector /\ [][Next]_vars

RECURSIVE LiteralsFrom(_, _)
\* the literals at p, p + 2, .. of a token stream, up to the first token
\* there that is no literal
LiteralsFrom(toks, p) ==
    IF p <= Len(toks) /\ toks[p].kind = "Number"
    THEN <<toks[p].num.n>> \o LiteralsFrom(toks, p + 2)
    ELSE <<>>

\* the elements written in `let v = vector(i1, i2, ..)`
ElementsOf(toks) == LiteralsFrom(toks, 6)

\* the last element of a non-empty array
LastOf(items) == NumberV(IntNum(items[Len(items)]))

\* C21: push(v, x) returns a new array equal to v with x appended, pop(v) on
\* a non-empty array returns the last element of v, pop of an empty array
\* fails with InvalidOperation, and after either call (a failing pop
\* included) the variable passed as v is still bound to the array it was
\* bound to before.
C21_PushPopCopy ==
    \A kind \in VectorKinds, x \in 1..(MaxLiteral + 1) :
        LET items == ElementsOf(tokens) IN
        (stage \notin {"read", "tokens", "parsed"} /\ tokens = VectorTokens(kind, items, x))
        => /\ stage = "done"
           /\ env["v"] = VariableB(VectorV(ElementsV(items)))
           /\ kind = "Push"
              => result = Ok(VectorV(Append(ElementsV(items), NumberV(IntNum(x)))), result.st)
           /\ kind = "PushThenRead" => result = Ok(VectorV(ElementsV(items)), result.st)
           /\ (kind \in {"Pop", "PushThenPop", "PushBound"} /\ items # <<>>)
              => result = Ok(LastOf(items), result.st)
           /\ (kind = "PopThenRead" /\ items # <<>>)
              => result = Ok(VectorV(ElementsV(items)), result.st)
           /\ (kind \in {"Pop", "PushThenPop", "PushBound", "PopThenRead"} /\ items = <<>>)
              => (result.tag = "Err" /\ result.val.kind = "InvalidOperation")
           /\ kind = "PushBound"
              => env["w"] = VariableB(VectorV(Append(ElementsV(items), NumberV(IntNum(x)))))

\* `let v = vector(1, 2, 3); push(v, 4); pop(v)` has yielded 3 and v is
\* still the array of 1, 2 and 3
C21_Witness ==
    /\ stage = "done"
    /\ tokens = VectorTokens("PushThenPop", <<1, 2, 3>>, 4)
    /\ result.tag = "Ok"
    /\ result.val = NumberV(IntNum(3))
    /\ env["v"] = VariableB(VectorV(<<NumberV(IntNum(1)), NumberV(IntNum(2)), NumberV(IntNum(3))>>))

\* ------------------------------------------ C22: runs of statement separators

\* the tokens of an inserted run of separators, at most
MaxRun == 3

\* `let x = 1`, `x` and `1`
SeparatedPool == { LetT("x", Num(1)), Id("x"), Num(1) }

\* two statements with a separator between them, and none, `;` or a line
\* end after the second
SeparatedPrograms ==
    { first \o sep \o second \o end :
        first \in SeparatedPool, second \in SeparatedPool,
        sep \in {Semi, NL}, end \in {<<>>, Semi, NL} }

\* the runs of `;` and Newline tokens, in any order
SeparatorRuns == UNION { [1..n -> {Tk("Semicolon"), Tk("Newline")}] : n \in 1..MaxRun }

IsSeparator(tok) == tok.kind \in {"Semicolon", "Newline"}

\* where a run goes in (after the first p tokens): before the first
\* statement, and after a separator that is already there (between the two
\* statements, or after the second one)
InsertionPoints(program) == {0} \cup { p \in DOMAIN program : IsSeparator(program[p]) }

Inserted(program, p, run) ==
    SubSeq(program, 1, p) \o run \o SubSeq(program, p + 1, Len(program))

SeparatedSessions ==
    { <<Inserted(program, p, run) \o Eof>> :
        <<program, p, run>> \in
            { t \in SeparatedPrograms \X (0..5) \X SeparatorRuns :
                t[2] \in InsertionPoints(t[1]) } }

InitSeparators == \E session \in SeparatedSessions : Start(session)
SpecSeparators == InitSeparators /\ [][Next]_vars

\* C22: a run of `;` and Newline tokens, in any order, inserted before the
\* first statement, between two statements or after a last statement that
\* ends with a separator, neither changes the AST that parse returns nor
\* makes parse fail.
C22_SeparatorRunsTransparent ==
    ast.tag # "None"
    => \A program \in SeparatedPrograms, run \in SeparatorRuns :
           \A p \in InsertionPoints(program) :
               tokens = Inserted(program, p, run) \o Eof
               => /\ ast.tag = "Ok"
                  /\ ast.node = Parse(program \o Eof).node

\* a line end and then `;` before `1; 1`: parse has panicked at the `;`,
\* which the skipping of `;` and then of line ends has left in place
C22_Witness ==
    /\ tokens = Inserted(Cat(<<Num(1), Semi, Num(1)>>), 0, <<Tk("Newline"), Tk("Semicolon")>>) \o Eof
    /\ Parse(Cat(<<Num(1), Semi, Num(1), Eof>>)).tag = "Ok"
    /\ stage = "aborted"
    /\ ast.tag = "Panic"

\* ------------------------------------------ C23: unclosed block comments

MaxChars == 5

\* the characters of the lines: the two a comment is made with, a letter and
\* a blank
CommentChars == {"/", "*", "a", " "}

CommentLines == UNION { [1..n -> CommentChars] : n \in 1..MaxChars }

CommentSessions == { <<line>> : line \in CommentLines }

InitComments == \E session \in CommentSessions : Start(session)

SpecComments == InitComments /\ [][NextRepl]_vars

RECURSIVE FirstOpener(_, _)
\* Where the first block comment of a line opens: the first `/*` that is not
\* inside a `//` comment (which runs to the end of these lines); 0 when the
\* line opens none.
FirstOpener(line, p) ==
    IF p >= Len(line) THEN 0
    ELSE IF line[p] = "/" /\ line[p + 1] = "/" THEN 0
    ELSE IF line[p] = "/" /\ line[p + 1] = "*" THEN p
    ELSE FirstOpener(line, p + 1)

\* The line opens a block comment and no `*/` follows the opening.
Unclosed(line) ==
    /\ FirstOpener(line, 1) # 0
    /\ \A q \in (FirstOpener(line, 1) + 2)..(Len(line) - 1) :
          ~(line[q] = "*" /\ line[q + 1] = "/")

HasComment(toks) == \E i \in DOMAIN toks : toks[i].kind = "Comment"

\* C23: a line in which a block comment is opened and not closed is refused
\* by tokenize: the command ends with a lexical error, and no token stream
\* with a Comment token is handed to the parser.
C23_UnclosedCommentIsError ==
    (cmd # <<>> /\ Unclosed(cmd)) =>
        /\ stage = "failed"
        /\ shown.as = "Lexical error"
        /\ ~HasComment(tokens)

\* `/* a`: tokenize returns Ok with the comment, the identifier and Eof
C23_Witness ==
    /\ cmd = <<"/", "*", " ", "a">>
    /\ stage = "tokens"
    /\ tokens = <<CommentT(<<" ">>), IdT("a"), Tk("Eof")>>

\* ------------------------- C24: what a call leaves of its body's writes

\* the bodies of `fn f(p) BODY`: bare expressions, evaluated in call_env
\* itself, and blocks; some end with a value, some with a Return, some with
\* an error
FrameBodies ==
    { AssignT("x", Num(5)),
      AssignT("p", Num(3)),
      AssignT("y", Id("q")),
      Cat(<<Op("If"), TrueT, AssignT("x", Id("p"))>>),
      BlockT(LetT("y", Num(2))),
      BlockT(AssignT("x", Num(5))),
      BlockT(Join(<<LetT("x", Num(9)), ReturnT(Id("x"))>>, Semi)),
      BlockT(Join(<<AssignT("x", Num(5)), ReturnT(Id("p"))>>, Semi)),
      BlockT(FnT("g", <<>>, Num(1))),
      BlockT(Join(<<FnT("f", <<>>, Num(1)), LetT("p", Num(0)), Id("x")>>, Semi)),
      BlockT(Join(<<LetT("x", Num(9)), AssignT("y", Num(1)), Id("q")>>, Semi)) }

\* the argument of the call: without effect, an assignment to a variable of
\* the caller, a reference that fails
FrameArguments == { Num(1), Id("x"), AssignT("x", Num(2)), AssignT("z", Num(2)), Id("q") }

\* `let x = 1; fn f(p) BODY`
FrameSetup(body) ==
    LetT("x", Num(1)) \o Semi \o <<Tk("Fn"), IdT("f")>> \o LParen \o Id("p") \o RParen \o body

FrameSessions ==
    { << FrameSetup(body) \o Eof, CallT("f", arg) \o Eof >> :
        body \in FrameBodies, arg \in FrameArguments }

InitFrame == \E session \in FrameSessions : Start(session)

SpecFrame == InitFrame /\ [][Next]_vars

\* the argument of the command `f(arg)`
ArgumentOf(toks) == SubSeq(toks, 3, Len(toks) - 2)

\* the caller's environment after the evaluation of the argument alone
AfterArgument(e, arg) ==
    IF Len(arg) = 3 /\ arg[2].kind = "Equal"
    THEN Define(e, arg[1].name, NumberV(arg[3].num))
    ELSE e

IsFrameCall(toks) == toks # <<>> /\ toks[1] = IdT("f")

\* C24: after the command `f(arg)` the environment is the one the command
\* began with, changed by the evaluation of arg alone: nothing the body of f
\* wrote (a let, an assignment, a fn declaration, the binding of the
\* parameter) is in it, whether the body ended with a value, a Return or an
\* error.
C24_BodyWritesStayInCall ==
    (IsFrameCall(tokens) /\ stage = "done") =>
        env = AfterArgument(before, ArgumentOf(tokens))

\* `fn f(p) x = 5` called as `f(z = 2)`: the call yields 5, z is bound to 2
\* and x is still 1
C24_Witness ==
    /\ IsFrameCall(tokens)
    /\ stage = "done"
    /\ ArgumentOf(tokens) = AssignT("z", Num(2))
    /\ result = Ok(NumberV(IntNum(5)), result.st)
    /\ Get(before, "z") = None
    /\ Get(env, "z") = Some(NumberV(IntNum(2)))
    /\ Get(env, "x") = Some(NumberV(IntNum(1)))
    /\ Get(env, "p") = None

\* --------------- C25: assignments in a block nested in a while body

DirectKinds == {"Direct", "PrintDirect"}
DiscardKinds == {"IfBlock", "Block", "PrintIfBlock", "ElseBlock"}

\* `x = x + 1`, directly in the body or inside a brace block of it
DiscardBody(kind) ==
    CASE kind = "Direct" -> AssignT("x", Sum("x", 1))
      [] kind = "PrintDirect" -> Join(<<CallT("print", Id("x")), AssignT("x", Sum("x", 1))>>, Semi)
      [] kind = "IfBlock" -> IfT(TrueT, AssignT("x", Sum("x", 1)))
      [] kind = "Block" -> BlockT(AssignT("x", Sum("x", 1)))
      [] kind = "PrintIfBlock" ->
            Join(<<CallT("print", Id("x")), IfT(TrueT, AssignT("x", Sum("x", 1)))>>, Semi)
      [] kind = "ElseBlock" -> IfElseT(<<BoolT(FALSE)>>, Num(0), AssignT("x", Sum("x", 1)))

\* `while x < n { body }`
DiscardLoop(kind, n) ==
    WhileT(Cat(<<Id("x"), Op("LessThan"), Num(n)>>), DiscardBody(kind)) \o Eof

\* `let x = a`, then the loop
DiscardSessions ==
    { << LetT("x", Num(a)) \o Eof, DiscardLoop(kind, n) >> :
        a \in 0..MaxLiteral, n \in 0..MaxLiteral, kind \in DirectKinds \cup DiscardKinds }

InitDiscard == \E session \in DiscardSessions : Start(session)

SpecDiscard == InitDiscard /\ [][Next]_vars

\* the Int a variable is bound to
IntOf(e, name) == e[name].value.num.n

\* n copies of x
Copies(x, n) == [i \in 1..n |-> x]

\* what `print(x)` writes in the iterations a, a+1, .., n-1
PrintedFrom(a, n) == [i \in 1..(n - a) |-> <<NumberV(IntNum(a + i - 1))>>]

\* C25: with x bound to a, `while x < n { .. }` with `x = x + 1` directly in
\* its body ends after n - a iterations (none when a >= n) with x = n. With
\* the assignment inside a brace block of the body (the block of an `if`, of
\* an `else`, a bare block) and a < n, the loop does not end: every iteration
\* leaves the environment as it found it, so x is still a in the condition
\* and in the next iteration (print(x) writes the same a every time), and
\* the evaluation uses up every step the model grants it.
C25_NestedAssignmentDiscarded ==
    \A kind \in DirectKinds \cup DiscardKinds, n \in 0..MaxLiteral :
        (tokens = DiscardLoop(kind, n) /\ stage \in {"done", "running", "aborted"}) =>
            LET a == IntOf(before, "x") IN
            IF a >= n
            THEN result = Ok(Nil, result.st) /\ env = before /\ result.st.out = <<>>
            ELSE IF kind \in DirectKinds
            THEN /\ result.tag = "Ok"
                 /\ Len(result.val.items) = n - a
                 /\ env = Define(before, "x", NumberV(IntNum(n)))
                 /\ kind = "PrintDirect" => result.st.out = PrintedFrom(a, n)
            ELSE /\ stage = "running"
                 /\ result.tag = "Diverge"
                 /\ result.st.fuel = 0
                 /\ env = before
                 /\ kind = "PrintIfBlock" =>
                        result.st.out = Copies(<<NumberV(IntNum(a))>>, MaxSteps)

\* `while x < 3 { print(x); if true { x = x + 1 } }` with x = 1: still
\* running after MaxSteps iterations, each of which printed 1
C25_Witness ==
    /\ tokens = DiscardLoop("PrintIfBlock", 3)
    /\ stage = "running"
    /\ IntOf(before, "x") = 1
    /\ IntOf(env, "x") = 1
    /\ Len(result.st.out) = MaxSteps
    /\ result.st.out[MaxSteps] = <<NumberV(IntNum(1))>>

\* ------------------------------------------ C26: evaluation never panics

\* conditions: true, false, one that depends on x, one that is no Boolean,
\* one that fails
EmptyConditions ==
    { TrueT, <<BoolT(FALSE)>>, Cat(<<Id("x"), Op("LessThan"), Num(2)>>), Num(1), Id("q") }

\* bodies: none, a line end only, one statement, two statements
EmptyBodies == { <<>>, NL, AssignT("x", Sum("x", 1)), Join(<<Num(1), AssignT("x", Num(2))>>, Semi) }

\* `let x = a; while condition { body }` and `let x = a; x / b`
EmptySessions ==
    { << LetT("x", Num(a)) \o Semi \o WhileT(condition, body) \o Eof >> :
        a \in 0..MaxLiteral, condition \in EmptyConditions, body \in EmptyBodies }
    \cup
    { << LetT("x", Num(a)) \o Semi \o Cat(<<Id("x"), Op("Divide"), Num(b)>>) \o Eof >> :
        a \in 0..MaxLiteral, b \in 0..MaxLiteral }

InitEmpty == \E session \in EmptySessions : Start(session)

SpecEmpty == InitEmpty /\ [][Next]_vars

\* C26: whatever AST parse returned, eval_with_env returns Ok or Err for it:
\* no evaluation aborts by panic.
C26_EvalNeverPanics == (ast.tag = "Ok") => result.tag # "Panic"

\* `let x = 0; while true { }`: parse returns the loop with an empty body,
\* and its evaluation panics
C26_Witness ==
    /\ tokens = LetT("x", Num(0)) \o Semi \o WhileT(TrueT, <<>>) \o Eof
    /\ ast.tag = "Ok"
    /\ ast.node[2] = ResultS(WhileE(BooleanE(TRUE), <<>>))
    /\ stage = "aborted"
    /\ result.tag = "Panic"

\* ------------------------------------------------ C27: parse terminates

MaxTokens == 3

ProgressTokens ==
    { Tk("Let"), Tk("Fn"), Tk("While"), IdT("x"), NumT(1), Tk("LeftParen"), Tk("RightParen"),
      Tk("Comma"), Tk("LeftBrace"), Tk("RightBrace"), Tk("Semicolon"), Tk("Newline"),
      Tk("Equal") }

\* the positions of a token sequence at which a brace or a parenthesis opens
Opens(toks) == { i \in DOMAIN toks : toks[i].kind \in {"LeftBrace", "LeftParen"} }

\* every sequence of 1..MaxTokens of these tokens (at most MaxOpen of them
\* opening), terminated by Eof
ProgressSessions ==
    { << toks \o Eof >> :
        toks \in { t \in UNION { [1..n -> ProgressTokens] : n \in 1..MaxTokens } :
                     Cardinality(Opens(t)) <= MaxOpen } }

InitProgress == \E session \in ProgressSessions : Start(session)

SpecProgress == InitProgress /\ [][Next]_vars

\* One call of `step` at cur, where a loop of the parser makes it: it ends the
\* parse, or it leaves the cursor further on, and not past Eof.
Progresses(toks, cur, r) == r.cur <= Len(toks) /\ (~r.bad => r.cur > cur)

\* the positions before Eof: where the statement loops and the argument loop
\* start an iteration
Inner(toks) == 1..(Len(toks) - 1)

\* the positions at which the parser asks for an identifier: after `let`,
\* `fn`, and in a parameter list after `(` and `,`
AsksIdentifier(toks) ==
    { cur \in 2..Len(toks) : toks[cur - 1].kind \in {"Let", "Fn", "LeftParen", "Comma"} }

\* C27: parse ends on every token sequence terminated by Eof, with the cursor
\* at a token of the sequence (at Eof when it returns Ok). Wherever in the
\* sequence a loop starts an iteration, the iteration ends the parse or
\* consumes at least one token: a statement (the loops of parse, of a block
\* and of a while body), an argument expression, a parameter name; and a
\* separator-skipping loop moves over tokens of its kind only, one by one,
\* and stops at Eof at the latest.
C27_ParseProgresses ==
    (stage \in {"parsed", "failed", "aborted"} /\ result.tag = "None") =>
        LET toks == WithoutComments(tokens) IN
        /\ ast.tag \in {"Ok", "Err", "Panic"}
        /\ ast.cur \in 1..Len(toks)
        /\ ast.tag = "Ok" => ast.cur = Len(toks)
        /\ \A cur \in Inner(toks) :
              /\ Progresses(toks, cur, Statement(toks, cur))
              /\ Progresses(toks, cur, Expression(toks, cur))
        /\ \A cur \in AsksIdentifier(toks) : Progresses(toks, cur, ConsumeIdentifier(toks, cur))
        /\ \A cur \in DOMAIN toks, kind \in {"Semicolon", "Newline"} :
              LET end == DeleteContinuousTokens(toks, cur, kind) IN
              /\ end \in cur..Len(toks)
              /\ \A i \in cur..(end - 1) : toks[i].kind = kind
              /\ ~Check(toks, end, kind)

\* `fn x(` Eof: the parameter loop asks for an identifier at Eof; the cursor
\* stays at Eof and the parse ends there
C27_Witness ==
    /\ tokens = <<Tk("Fn"), IdT("x"), Tk("LeftParen"), Tk("Eof")>>
    /\ stage = "failed"
    /\ ast = PErr(UnexpectedToken(tokens, 4), 4)
    /\ ConsumeIdentifier(tokens, 2) = POk("x", 3)

\* ------------------------------------ C28: a missing identifier is reported

\* where an identifier is required
IdentifierContexts == {"Let", "FnName", "Param", "SecondParam"}

\* what stands where the identifier is required; <<>> is the end of the input
IdentifierCandidates ==
    { Id("y"), Num(1), TrueT, Op("Equal"), LParen, RParen, LBrace, Semi, NL, Op("Let"),
      Op("Fn"), <<>> }

\* the tokens up to the required identifier
IdentifierHead(context) ==
    CASE context = "Let" -> Op("Let")
      [] context = "FnName" -> Op("Fn")
      [] context = "Param" -> Op("Fn") \o Id("f") \o LParen
      [] context = "SecondParam" -> Op("Fn") \o Id("f") \o LParen \o Id("x") \o Op("Comma")

\* the tokens after it, of a well-formed statement
IdentifierTail(context) ==
    CASE context = "Let" -> Op("Equal") \o Num(1)
      [] context = "FnName" -> LParen \o RParen \o Num(1)
      [] context \in {"Param", "SecondParam"} -> RParen \o Num(1)

\* `let T = 1`, `fn T() 1`, `fn f(T) 1`, `fn f(x, T) 1`; the input ends
\* before T when T is <<>>
IdentifierTokens(context, t) ==
    IdentifierHead(context) \o t
    \o (IF t = <<>> THEN <<>> ELSE IdentifierTail(context)) \o Eof

IdentifierSessions ==
    { << IdentifierTokens(context, t) >> :
        context \in IdentifierContexts, t \in IdentifierCandidates }

InitIdentifier == \E session \in IdentifierSessions : Start(session)

SpecIdentifier == InitIdentifier /\ [][Next]_vars

\* An identifier is required at t and t is none. (After the `(` of a
\* parameter list a `)` is taken as the end of the list.)
NotTheIdentifier(context, t) ==
    /\ t # Id("y")
    /\ ~(context = "Param" /\ t = RParen)

\* C28: where an identifier is required and the token there is none, parse
\* fails with UnexpectedToken carrying that token and its position, the Eof
\* token when the input ends there.
C28_ReportsOffendingToken ==
    \A context \in IdentifierContexts, t \in IdentifierCandidates :
        ( /\ tokens = IdentifierTokens(context, t)
          /\ NotTheIdentifier(context, t)
          /\ stage \in {"parsed", "failed", "aborted"} ) =>
            /\ stage = "failed"
            /\ ast.node = UnexpectedToken(tokens, Len(IdentifierHead(context)) + 1)

\* `let 1 = 1`: parse fails with UnexpectedToken carrying the `=` at
\* position 3, the token after the number that stands where the name should
C28_Witness ==
    /\ tokens = IdentifierTokens("Let", Num(1))
    /\ stage = "failed"
    /\ ast.node = UnexpectedToken(tokens, 3)
    /\ ast.node.token = Tk("Equal")

\* ------------------------------- C29: a Return raised by a call argument

\* `{ return v }` and `{ print(5); return v }`
ReturningBlock(v) == BlockT(ReturnT(Num(v)))
PrintingReturningBlock(v) == BlockT(Join(<<CallPrint(5), ReturnT(Num(v))>>, Semi))

\* `fn f(p) { print(7); p }`: a callee whose body shows that it ran
\* `fn two(a, b) { print(7); a }`
\* `fn r(p) { return p; 9 }`: a callee whose own body returns
\* `fn g(p) { f({ return p }); 9 }`, `fn h(p) { print({ return p }); 9 }`:
\* callers whose body makes the call
ReturningDefinitions ==
    Join(<< FnT("g", Id("p"), Join(<<CallT("f", BlockT(ReturnT(Id("p")))), Num(9)>>, Semi)),
            FnT("h", Id("p"), Join(<<CallT("print", BlockT(ReturnT(Id("p")))), Num(9)>>, Semi)),
            FnT("f", Id("p"), Join(<<CallPrint(7), Id("p")>>, Semi)),
            <<Tk("Fn"), IdT("two")>> \o LParen \o Id("a") \o Comma \o Id("b") \o RParen
                \o BlockT(Join(<<CallPrint(7), Id("a")>>, Semi)),
            FnT("r", Id("p"), Join(<<ReturnT(Id("p")), Num(9)>>, Semi)) >>, Semi)

ArgumentReturnKinds ==
    {"User", "Builtin", "SecondArgument", "AfterPrint", "InUser", "InBuiltin", "Body"}

ArgumentReturnCall(kind, v) ==
    CASE kind = "User" -> CallT("f", ReturningBlock(v))
      [] kind = "Builtin" -> CallT("print", ReturningBlock(v))
      [] kind = "SecondArgument" -> CallT("two", CallPrint(5) \o Comma \o ReturningBlock(v))
      [] kind = "AfterPrint" -> CallT("f", PrintingReturningBlock(v))
      [] kind = "InUser" -> CallT("print", CallT("g", Num(v)))
      [] kind = "InBuiltin" -> CallT("print", CallT("h", Num(v)))
      [] kind = "Body" -> CallT("print", CallT("r", Num(v)))

\* the definitions, then `call; print(8)`
ArgumentReturnSessions ==
    { << ReturningDefinitions \o Eof,
         Join(<<ArgumentReturnCall(kind, v), CallPrint(8)>>, Semi) \o Eof >> :
        kind \in ArgumentReturnKinds, v \in 0..MaxLiteral }

InitArgumentReturn == \E session \in ArgumentReturnSessions : Start(session)

SpecArgumentReturn == InitArgumentReturn /\ [][Next]_vars

\* the lines print has written, as Ints
PrintedInts(out) == [i \in DOMAIN out |-> out[i][1].num.n]

\* C29: a Return raised by an argument of a call ends the call before the
\* callee's body runs (nothing prints 7) and is handed on as it is: at the
\* top level the command ends with Return(v) and its next statement does not
\* run; inside the body of a user function g or h it becomes the value of
\* the call of g or h, whose remaining statements do not run (the command
\* prints that value and goes on with print(8)). An argument evaluated before the returning
\* one has run. A Return raised by the callee's own body is the value of the
\* call.
C29_ArgumentReturnPropagates ==
    \A kind \in ArgumentReturnKinds, v \in 0..MaxLiteral :
        ( /\ tokens = Join(<<ArgumentReturnCall(kind, v), CallPrint(8)>>, Semi) \o Eof
          /\ stage \in {"done", "running", "aborted"} ) =>
            /\ stage = "done"
            /\ env = before
            /\ CASE kind \in {"User", "Builtin"} ->
                      /\ result = Err(ReturnSignal(NumberV(IntNum(v))), result.st)
                      /\ result.st.out = <<>>
                 [] kind \in {"SecondArgument", "AfterPrint"} ->
                      /\ result = Err(ReturnSignal(NumberV(IntNum(v))), result.st)
                      /\ PrintedInts(result.st.out) = <<5>>
                 [] kind \in {"InUser", "InBuiltin", "Body"} ->
                      /\ result = Ok(Nil, result.st)
                      /\ PrintedInts(result.st.out) = <<v, 8>>

\* `f({ return 2 }); print(8)` at the top level: the command ends with
\* Return(2) and neither the body of f nor print(8) has run
C29_Witness ==
    /\ tokens = Join(<<ArgumentReturnCall("User", 2), CallPrint(8)>>, Semi) \o Eof
    /\ stage = "done"
    /\ result = Err(ReturnSignal(NumberV(IntNum(2))), result.st)
    /\ result.st.out = <<>>
    /\ shown = ShownExecutionError(ReturnSignal(NumberV(IntNum(2))))

\* --------------------------------------- C30: the REPL after an error

MaxLines == 2

ExitLine == <<"e", "x", "i", "t">>
HelpLine == <<"h", "e", "l", "p">>
ClearLine == <<"c", "l", "e", "a", "r">>
\* `let x = true`
BindLine == <<"l", "e", "t", " ", "x", " ", "=", " ", "t", "r", "u", "e">>
\* `x`
ReadVariableLine == <<"x">>
\* `let y = true; q`: fails at q with UndefinedVariable, after the let
FailingLine == <<"l", "e", "t", " ", "y", " ", "=", " ", "t", "r", "u", "e", ";", " ", "q">>
\* `(x`: a grammar error
UnclosedParenLine == <<"(", "x">>
\* `@`: a lexical error
UnexpectedCharLine == <<"@">>
\* `)`: a token that starts no expression
RightParenLine == <<")">>
\* `while true { }`
EmptyWhileLine ==
    <<"w", "h", "i", "l", "e", " ", "t", "r", "u", "e", " ", "{", " ", "}">>

ReplLines ==
    { ExitLine, HelpLine, ClearLine, BindLine, ReadVariableLine, FailingLine,
      UnclosedParenLine, UnexpectedCharLine, RightParenLine, EmptyWhileLine }

ReplSessions == UNION { [1..n -> ReplLines] : n \in 1..MaxLines }

InitRepl == \E session \in ReplSessions : Start(session)

SpecRepl == InitRepl /\ [][NextRepl]_vars

\* handle_command has returned true: the command is over and run_repl reads
\* the next line
ReturnedTrue == stage \in {"read", "failed", "done"}

\* C30: once a line is handled, handle_command has returned false exactly
\* when the line is `exit`, and true for every other line, whether its
\* tokenizing, its parsing or its evaluation failed; after a failed
\* evaluation the environment holds what the statements before the failing
\* one bound; after `clear` it is Environment::new().
C30_ReplContinues ==
    (cmd # <<>> /\ stage \notin {"tokens", "parsed"}) =>
        /\ (stage = "exited") <=> (cmd = ExitLine)
        /\ cmd # ExitLine => ReturnedTrue
        /\ (cmd = FailingLine /\ stage = "done") =>
              /\ result.tag = "Err"
              /\ env = Define(before, "y", BooleanV(TRUE))
        /\ cmd = ClearLine => env = EnvironmentNew

\* `)` with a line still to be read: the parser panics, handle_command does
\* not return and the line is never read
C30_Witness ==
    /\ cmd = RightParenLine
    /\ tokens = <<Tk("RightParen"), Tk("Eof")>>
    /\ stage = "aborted"
    /\ ast.tag = "Panic"
    /\ pending # <<>>

====
